---- MODULE Spec2Model ----
(***************************************************************************)
(* Model of the openclaw-agentsandbox plugin: the sandbox tools            *)
(* (tools.ts: getToken, apiRequest, apiUploadFile and the eleven tools of  *)
(* createTools) over the credential store file auth-profiles.json and the  *)
(* remote API.                                                             *)
(*                                                                         *)
(* Strings are sequences.  An element is a single character, or a chunk:   *)
(* a run of characters that holds no parenthesis, no digit and no blank at *)
(* either end that a trim could reach.  Characters that the code inspects  *)
(* (parentheses, digits, blanks, '/', '=') are always single elements.     *)
(***************************************************************************)
EXTENDS Integers, Sequences, FiniteSets, TLC

\* ------------------------------------------------------------------ bounds
MaxInvocations == 2
Now0 == 1000000

\* --------------------------------------------------------------- JS values
\* the JavaScript value undefined, where a string is expected
Undefined == <<"undefined">>

\* JavaScript truthiness of an optional string: undefined and "" are falsy
Truthy(s) == s # Undefined /\ s # <<>>

RECURSIVE TrimStart(_)
TrimStart(s) == IF s # <<>> /\ Head(s) = " " THEN TrimStart(Tail(s)) ELSE s

RECURSIVE TrimEnd(_)
TrimEnd(s) ==
  IF s # <<>> /\ s[Len(s)] = " " THEN TrimEnd(SubSeq(s, 1, Len(s) - 1)) ELSE s

\* String.prototype.trim
Trim(s) == TrimEnd(TrimStart(s))

\* process.env.SANDBOX_API_KEY?.trim()
OptTrim(s) == IF s = Undefined THEN Undefined ELSE Trim(s)

DigitChar == <<"0", "1", "2", "3", "4", "5", "6", "7", "8", "9">>
Digits == {DigitChar[i] : i \in 1..10}
DigitVal(c) == CHOOSE d \in 0..9 : DigitChar[d + 1] = c

\* `${res.status}` of a three-digit status
StatusText(n) ==
  <<DigitChar[(n \div 100) + 1], DigitChar[((n \div 10) % 10) + 1], DigitChar[(n % 10) + 1]>>

\* message.includes("(404)")
Includes404(msg) ==
  \E i \in 1..(Len(msg) - 4) : SubSeq(msg, i, i + 4) = <<"(", "4", "0", "4", ")">>

\* positions where /\((\d{3})\)/ matches
StatusMatches(msg) ==
  {i \in 1..(Len(msg) - 4) :
     /\ msg[i] = "("
     /\ msg[i + 1] \in Digits /\ msg[i + 2] \in Digits /\ msg[i + 3] \in Digits
     /\ msg[i + 4] = ")"}

\* lastError.message.match(/\((\d{3})\)/): the leftmost match, 0 for null
StatusMatch(msg) ==
  IF StatusMatches(msg) = {} THEN 0
  ELSE CHOOSE i \in StatusMatches(msg) : \A j \in StatusMatches(msg) : i <= j

\* statusMatch ? parseInt(statusMatch[1], 10) : 0
ParsedStatus(msg) ==
  LET i == StatusMatch(msg) IN
  IF i = 0 THEN 0
  ELSE 100 * DigitVal(msg[i + 1]) + 10 * DigitVal(msg[i + 2]) + DigitVal(msg[i + 3])

\* encodeURIComponent of one element: letters, digits and - _ . ! ~ * ' ( )
\* are kept, everything else is percent-encoded
EncodeChar(c) ==
  CASE c = "/" -> <<"%", "2", "F">>
    [] c = " " -> <<"%", "2", "0">>
    [] c = "=" -> <<"%", "3", "D">>
    [] OTHER -> <<c>>

RECURSIVE encodeURIComponent(_)
encodeURIComponent(s) ==
  IF s = <<>> THEN <<>> ELSE EncodeChar(Head(s)) \o encodeURIComponent(Tail(s))

\* ------------------------------------------------------- program constants
\* bufferMs, the safety margin before the access token's expiry
bufferMs == 5 * 60 * 1000

\* maxAttempts of the two delete tools
maxAttempts == 3

\* base delay of the backoff: 500 * 2 ** (attempt - 1)
BackoffBaseMs == 500

\* the provider id that getToken looks for in the host's auth profiles
ProviderId == "agentsandbox"

\* ----------------------------------------------------------------- profiles
ProfileId == <<"agentsandbox:user@test.com">>
OtherProfileId == <<"openai:default">>

\* ctx.config?.auth?.profiles as the ordered list of its entries
Configs ==
  { <<>>,
    <<[id |-> OtherProfileId, provider |-> "openai"]>>,
    <<[id |-> OtherProfileId, provider |-> "openai"],
      [id |-> ProfileId, provider |-> ProviderId]>> }

AgentDirs == {Undefined, <<"/tmp/agent">>}

\* Object.entries(profiles).find(([, p]) => p?.provider === "agentsandbox")?.[0]
FindProfileId(config) ==
  LET hits == {i \in 1..Len(config) : config[i].provider = ProviderId} IN
  IF hits = {} THEN Undefined
  ELSE config[CHOOSE i \in hits : \A j \in hits : i <= j].id

\* ------------------------------------------------------- credential records
PermanentKey == <<"permanent-key">>
OldAccess == <<"old-access">>
OldRefresh == <<"old-refresh">>
EnvKey == <<"env-key">>

Cred(key, access, refresh, expires) ==
  [type |-> "oauth", provider |-> ProviderId, key |-> key, access |-> access,
   refresh |-> refresh, expires |-> expires, email |-> <<"user@test.com">>]

OtherCred ==
  [type |-> "api_key", provider |-> "openai", key |-> <<"sk-other">>,
   access |-> Undefined, refresh |-> Undefined, expires |-> 0, email |-> Undefined]

\* expires: 0 stands for an absent field (both are falsy in cred.expires && ...)
ExpiresValues == {0, Now0 - 1000, Now0 + bufferMs, Now0 + bufferMs + 1}

\* every combination of fields without a key and with one, and two records
\* whose key is the empty string
CredRecords ==
  {Cred(k, a, r, e) : k \in {Undefined, PermanentKey}, a \in {Undefined, OldAccess},
                      r \in {Undefined, OldRefresh}, e \in ExpiresValues}
  \cup {Cred(<<>>, OldAccess, r, Now0 + bufferMs + 1) : r \in {Undefined, OldRefresh}}
  \cup {Cred(<<>>, Undefined, r, 0) : r \in {Undefined, OldRefresh}}

\* the parsed auth-profiles.json: profile id -> record (profiles absent = empty)
NoProfiles == [x \in {} |-> OtherCred]
OtherOnly == [x \in {OtherProfileId} |-> OtherCred]
StoreWith(c) == [x \in {OtherProfileId, ProfileId} |-> IF x = ProfileId THEN c ELSE OtherCred]

\* the file on disk: missing, not JSON, or a store
Disks ==
  {[state |-> "missing", profiles |-> NoProfiles],
   [state |-> "corrupt", profiles |-> NoProfiles],
   [state |-> "ok", profiles |-> NoProfiles],
   [state |-> "ok", profiles |-> OtherOnly]}
  \cup {[state |-> "ok", profiles |-> StoreWith(c)] : c \in CredRecords}

\* values of process.env.SANDBOX_API_KEY
EnvValues == {Undefined, <<" ", " ">>, <<" ">> \o EnvKey \o <<" ">>}

Contexts == [config : Configs, agentDir : AgentDirs]

\* the stores tried in the worlds where getToken never gets to use the record
FewDisks ==
  {[state |-> "missing", profiles |-> NoProfiles],
   [state |-> "ok", profiles |-> StoreWith(Cred(PermanentKey, OldAccess, OldRefresh, Now0 + bufferMs + 1))],
   [state |-> "ok", profiles |-> StoreWith(Cred(Undefined, OldAccess, OldRefresh, Now0 - 1000))]}

\* the environments an invocation can start in: every store where the store
\* is read, a few stores where the env override or the context decides
Worlds ==
  {[env |-> e, ctx |-> c, disk |-> d] : e \in EnvValues, c \in Contexts, d \in FewDisks}
  \cup {[env |-> e, ctx |-> c, disk |-> d] :
          e \in {Undefined},
          c \in {x \in Contexts : Truthy(FindProfileId(x.config)) /\ Truthy(x.agentDir)},
          d \in Disks}

\* ---------------------------------------------------------- HTTP responses
\* bodies of parsed responses: an object (field -> text) or a raw text
ObjData(f) == [type |-> "object", fields |-> f, text |-> <<>>]
TextData(t) == [type |-> "text", fields |-> [x \in {} |-> <<>>], text |-> t]
EmptyObj == ObjData([x \in {} |-> <<>>])

JsonEmpty == <<"{", "}">>
JsonStatus == <<"{", "status:destroyed", "}">>
JsonReturnCode == <<"{", "return_code:", "0", "}">>
NotJson == <<"<html>">>

\* JSON.parse on the texts the modelled server sends: TRUE when it throws
JsonParseThrows(text) == text \notin {JsonEmpty, JsonStatus, JsonReturnCode}

JsonParse(text) ==
  CASE text = JsonStatus -> ObjData([x \in {"status"} |-> <<"destroyed">>])
    [] text = JsonReturnCode -> ObjData([x \in {"return_code"} |-> <<"0">>])
    [] OTHER -> EmptyObj

Http(status, ctype, text) == [kind |-> "http", status |-> status, ctype |-> ctype, text |-> text]

\* fetch rejects (connection failure): no response at all
NetworkFailure == [kind |-> "network", status |-> 0, ctype |-> "", text |-> <<>>]

\* content-type headers for which contentType.includes("application/json")
JsonTypes == {"application/json", "application/json; charset=utf-8"}

OkResponses ==
  {Http(204, "application/json", <<>>), Http(200, "application/json", <<>>),
   Http(204, "text/plain", <<>>), Http(201, "application/json; charset=utf-8", JsonStatus),
   Http(200, "application/json", JsonReturnCode),
   Http(200, "application/json", NotJson), Http(200, "text/plain", <<"raw">>)}

\* error bodies: a plain text, and one that quotes an upstream status
ErrTexts == {<<"Internal error">>, <<"upstream said ", "(", "4", "0", "4", ")">>}

ErrStatuses == {400, 401, 404, 429, 500}

ErrResponses == {Http(st, "text/plain", t) : st \in ErrStatuses, t \in ErrTexts}

Responses == OkResponses \cup ErrResponses \cup {NetworkFailure}

\* res.ok
ResOk(res) == res.status >= 200 /\ res.status <= 299

\* faulty variant: the response text is left out of the message
ApiErrorMessage_NoBody(method, endpoint, status, errText) ==
  <<"API ", method, " ">> \o endpoint \o <<" failed ", "(">> \o StatusText(status) \o <<")">>

\* the message of the Error thrown by apiRequest / apiUploadFile on !res.ok
ApiErrorMessage(method, endpoint, status, errText) ==
  <<"API ", method, " ">> \o endpoint \o <<" failed ", "(">> \o StatusText(status)
    \o <<")", ": ">> \o errText

FetchFailedMessage == <<"fetch failed">>
SyntaxErrorMessage == <<"Unexpected token < in JSON at position ", "0">>

Returned(data) == [thrown |-> FALSE, error |-> "", message |-> <<>>, data |-> data]
Thrown(kind, msg) == [thrown |-> TRUE, error |-> kind, message |-> msg, data |-> EmptyObj]

\* faulty variant: an empty JSON body is handed to JSON.parse
HandleResponse_ParseEmpty(method, endpoint, res) ==
  IF res.kind = "network" THEN Thrown("NetworkError", FetchFailedMessage)
  ELSE IF ~ResOk(res)
    THEN Thrown("ApiRequestFailed", ApiErrorMessage(method, endpoint, res.status, res.text))
  ELSE IF res.status = 204 THEN Returned(EmptyObj)
  ELSE IF res.ctype \in JsonTypes
    THEN IF JsonParseThrows(res.text) THEN Thrown("SyntaxError", SyntaxErrorMessage)
         ELSE Returned(JsonParse(res.text))
  ELSE Returned(TextData(res.text))

\* the part of apiRequest and apiUploadFile after the fetch
HandleResponse(method, endpoint, res) ==
  IF res.kind = "network" THEN Thrown("NetworkError", FetchFailedMessage)
  ELSE IF ~ResOk(res)
    THEN Thrown("ApiRequestFailed", ApiErrorMessage(method, endpoint, res.status, res.text))
  ELSE IF res.status = 204 THEN Returned(EmptyObj)
  ELSE IF res.ctype \in JsonTypes
    THEN IF res.text = <<>> THEN Returned(EmptyObj)
         ELSE IF JsonParseThrows(res.text) THEN Thrown("SyntaxError", SyntaxErrorMessage)
         ELSE Returned(JsonParse(res.text))
  ELSE Returned(TextData(res.text))

\* apiRequest(method, endpoint, token, body) given the server's response
apiRequest(method, endpoint, res) == HandleResponse(method, endpoint, res)

\* the character class [A-Za-z0-9+/], over the letters the model uses
Base64Class == {"A", "C", "E", "w", "+", "/"} \cup Digits

\* /^[A-Za-z0-9+/]*={0,2}$/ : the length of the longest prefix in the class
RECURSIVE Base64Prefix(_)
Base64Prefix(s) ==
  IF s = <<>> \/ Head(s) \notin Base64Class THEN 0 ELSE 1 + Base64Prefix(Tail(s))

base64RegexTest(s) ==
  LET n == Base64Prefix(s)
      rest == SubSeq(s, n + 1, Len(s)) IN
  rest \in {<<>>, <<"=">>, <<"=", "=">>}

FileDatas ==
  {<<"A", "A", "E", "C", "/", "w", "=", "=">>, <<"!", "!", "!">>, <<"A", "=", "=", "=">>,
   <<"A">>}

\* apiUploadFile(endpoint, token, fileData, filename) given the response;
\* the regex test precedes the fetch
apiUploadFile(endpoint, fileData, res) ==
  IF ~base64RegexTest(fileData)
    THEN Thrown("InvalidEncoding", <<"Invalid base", "6", "4", " encoding in file_data">>)
  ELSE HandleResponse("POST", endpoint, res)

\* --------------------------------------------------------------------- tools
\* faulty variant: sandbox_inject_files runs in the retry loop
SimpleTools_NoInject ==
  {"sandbox_execute", "sandbox_create_session", "sandbox_list_sessions",
   "sandbox_download_file", "sandbox_get_session",
   "sandbox_list_files", "sandbox_get_execution"}

SimpleTools ==
  {"sandbox_execute", "sandbox_create_session", "sandbox_list_sessions",
   "sandbox_inject_files", "sandbox_download_file", "sandbox_get_session",
   "sandbox_list_files", "sandbox_get_execution"}
DeleteTools == {"sandbox_destroy_session", "sandbox_delete_file"}
UploadTools == {"sandbox_upload_file"}
ToolNames == SimpleTools \cup DeleteTools \cup UploadTools

\* tools whose params carry a session_id, file_id or execution_id
IdTools ==
  {"sandbox_destroy_session", "sandbox_inject_files", "sandbox_download_file",
   "sandbox_get_session", "sandbox_delete_file", "sandbox_get_execution"}

\* ids a caller may pass: an ordinary one, and one that holds "(400)"
PlainId == <<"sess", "/", "a">>
ParenId == <<"x", "(", "4", "0", "0", ")">>
Ids == {PlainId, ParenId}

\* the params of one invocation: every tool, the delete tools with every id
Calls ==
  {[tool |-> t, id |-> i, file_data |-> <<>>] : t \in DeleteTools, i \in Ids}
  \cup {[tool |-> t, id |-> PlainId, file_data |-> <<>>] : t \in IdTools \ DeleteTools}
  \cup {[tool |-> t, id |-> Undefined, file_data |-> <<>>] : t \in SimpleTools \ IdTools}
  \cup {[tool |-> t, id |-> Undefined, file_data |-> f] : t \in UploadTools, f \in FileDatas}
  \cup {[tool |-> t, id |-> PlainId, file_data |-> <<"A", "A", "E", "C", "/", "w", "=", "=">>] :
          t \in UploadTools}

Method(tool) ==
  CASE tool \in DeleteTools -> "DELETE"
    [] tool \in {"sandbox_execute", "sandbox_create_session", "sandbox_inject_files",
                 "sandbox_upload_file"} -> "POST"
    [] OTHER -> "GET"

\* URLSearchParams serialisation of one element (application/x-www-form-urlencoded)
FormEncodeChar(c) ==
  CASE c = "/" -> <<"%", "2", "F">>
    [] c = "(" -> <<"%", "2", "8">>
    [] c = ")" -> <<"%", "2", "9">>
    [] c = " " -> <<"+">>
    [] OTHER -> <<c>>

RECURSIVE FormEncode(_)
FormEncode(s) == IF s = <<>> THEN <<>> ELSE FormEncodeChar(Head(s)) \o FormEncode(Tail(s))

\* the endpoint each tool builds from its params
Endpoint(c) ==
  CASE c.tool = "sandbox_execute" -> <<"/v", "1", "/execute">>
    [] c.tool \in {"sandbox_create_session", "sandbox_list_sessions"} -> <<"/v", "1", "/sessions">>
    [] c.tool \in {"sandbox_destroy_session", "sandbox_get_session"} ->
         <<"/v", "1", "/sessions/">> \o encodeURIComponent(c.id)
    [] c.tool = "sandbox_inject_files" ->
         <<"/v", "1", "/sessions/">> \o encodeURIComponent(c.id) \o <<"/files">>
    [] c.tool \in {"sandbox_download_file", "sandbox_delete_file"} ->
         <<"/v", "1", "/files/">> \o encodeURIComponent(c.id)
    [] c.tool = "sandbox_list_files" -> <<"/v", "1", "/files">>
    [] c.tool = "sandbox_upload_file" ->
         IF Truthy(c.id) THEN <<"/v", "1", "/files", "?session_id", "=">> \o FormEncode(c.id)
         ELSE <<"/v", "1", "/files">>
    [] OTHER -> <<"/v", "1", "/executions/">> \o encodeURIComponent(c.id)

\* details.ok of a successful invocation
DetailsOk(c, data) ==
  IF c.tool = "sandbox_execute"
    THEN data.type = "object" /\ "return_code" \in DOMAIN data.fields
         /\ data.fields["return_code"] = <<"0">>
  ELSE TRUE

\* ------------------------------------------------------------ token endpoint
\* expires_in of the token endpoint's answer, in seconds
ExpiresIn == 3600

\* faulty variant: the grant is posted without the stored refresh token
RefreshRequest_NoToken(refreshToken) ==
  [grant_type |-> "refresh_token", refresh_token |-> <<>>]

\* faulty variant: the tool path posts an authorization-code exchange
RefreshRequest_AuthCode(refreshToken) ==
  [grant_type |-> "authorization_code", refresh_token |-> refreshToken]

\* the form body refreshAccessToken posts to /oauth/token
RefreshRequest(refreshToken) ==
  [grant_type |-> "refresh_token", refresh_token |-> refreshToken]

\* tokens the server issues on its n-th grant
NewAccess(n) == <<"access-", DigitChar[n + 1]>>
NewRefresh(n) == <<"refresh-", DigitChar[n + 1]>>

\* faulty variant: the refresh token that was sent is kept
ApplyRefresh_KeepSent(cred, refreshed) ==
  [cred EXCEPT !.access = refreshed.accessToken, !.expires = refreshed.expiresAt]

\* cred.access = refreshed.accessToken; cred.refresh = refreshed.refreshToken;
\* cred.expires = refreshed.expiresAt
ApplyRefresh(cred, refreshed) ==
  [cred EXCEPT !.access = refreshed.accessToken,
               !.refresh = refreshed.refreshToken,
               !.expires = refreshed.expiresAt]

\* answers of the token endpoint to a refresh: a grant that rotates the
\* refresh token, a grant that keeps it, a rejection, no answer
RefreshAnswers == {"rotated", "kept", "rejected", "network"}

\* faulty variant: the response body is left out of the message
RefreshErrorMessage_NoBody(status, text) ==
  <<"Token refresh failed ", "(">> \o StatusText(status) \o <<")">>

RefreshErrorMessage(status, text) ==
  <<"Token refresh failed ", "(">> \o StatusText(status) \o <<")", ": ">> \o text

\* ------------------------------------------------------------------- getToken
\* faulty variant: the comparison with the buffer is <= instead of <
AccessUsable_Inclusive(cred, t) ==
  Truthy(cred.access) /\ cred.expires # 0 /\ t <= cred.expires - bufferMs

\* step 2 of getToken: cred.access && cred.expires && Date.now() < cred.expires - bufferMs
AccessUsable(cred, t) ==
  Truthy(cred.access) /\ cred.expires # 0 /\ t < cred.expires - bufferMs

\* faulty variant: a usable access token is preferred to the permanent key
TokenSource_AccessFirst(cred, t) ==
  IF Truthy(cred.access) /\ cred.expires # 0 /\ t < cred.expires - bufferMs THEN "access"
  ELSE IF Truthy(cred.key) THEN "key"
  ELSE IF Truthy(cred.refresh) THEN "refresh"
  ELSE "none"

\* faulty variant: without a refresh token the stale access token is used after all
TokenSource_StaleAccess(cred, t) ==
  IF Truthy(cred.key) THEN "key"
  ELSE IF Truthy(cred.access) /\ cred.expires # 0 /\ t < cred.expires - bufferMs THEN "access"
  ELSE IF Truthy(cred.refresh) THEN "refresh"
  ELSE IF Truthy(cred.access) THEN "access"
  ELSE "none"

\* the branch getToken takes on the record it read
TokenSource(cred, t) ==
  IF Truthy(cred.key) THEN "key"
  ELSE IF AccessUsable(cred, t) THEN "access"
  ELSE IF Truthy(cred.refresh) THEN "refresh"
  ELSE "none"

\* faulty variant: the env value is used without trimming
EnvOverride_NoTrim(e) == IF Truthy(e) THEN e ELSE Undefined

\* step 0 of getToken: the env override, Undefined when it does not apply
EnvOverride(e) ==
  LET envKey == OptTrim(e) IN IF Truthy(envKey) THEN envKey ELSE Undefined

\* faulty variant: agentDir is checked before the profile
ContextError_DirFirst(c) ==
  IF ~Truthy(c.agentDir) THEN "MissingAgentContext"
  ELSE IF ~Truthy(FindProfileId(c.config)) THEN "NoProfileFound"
  ELSE ""

\* the error getToken throws before it reads the store, "" for none
ContextError(c) ==
  IF ~Truthy(FindProfileId(c.config)) THEN "NoProfileFound"
  ELSE IF ~Truthy(c.agentDir) THEN "MissingAgentContext"
  ELSE ""

\* ---------------------------------------------------------------- retry loop
\* 500 * 2 ** (attempt - 1)
BackoffMs(attempt) == BackoffBaseMs * (2 ^ (attempt - 1))

\* status >= 500 || status === 429 || !statusMatch
IsRetryable(msg) ==
  LET status == ParsedStatus(msg) IN
  status >= 500 \/ status = 429 \/ StatusMatch(msg) = 0

\* faulty variant: the catch block lacks the 404 case
CatchDecision_No404(msg, attempt) ==
  IF ~(ParsedStatus(msg) >= 500 \/ ParsedStatus(msg) = 429 \/ StatusMatch(msg) = 0)
     \/ attempt = maxAttempts
    THEN "throw"
  ELSE "sleep"

\* the catch block of the delete tools: what follows an error on this attempt
CatchDecision(msg, attempt) ==
  IF Includes404(msg) THEN "already_gone"
  ELSE IF ~IsRetryable(msg) \/ attempt = maxAttempts THEN "throw"
  ELSE "sleep"

\* ---------------------------------------------------------------------- state
Procs == {"t1", "t2"}

VARIABLES
  env,          \* process.env.SANDBOX_API_KEY
  ctx,          \* the ToolCtx given to createTools: config and agentDir
  disk,         \* auth-profiles.json in agentDir
  now,          \* Date.now(), in a scaled epoch; constant over the short runs modelled
  issued,       \* server side: how many token grants were made
  acked,        \* caller side: the resources a delete tool has reported deleted (ok: true)
  invocations,  \* number of tool invocations started
  active,       \* the invocation slots in use
  pc,           \* where each invocation stands
  call,         \* its tool and params
  token,        \* const token = await getToken(ctx)
  mem,          \* getToken's parsed store (the local `store`)
  seen,         \* the record as getToken read it, and the Date.now() it compared
  attempt,      \* the retry loop's attempt
  lastError,    \* the retry loop's lastError.message
  result,       \* what execute returned or threw
  trace,        \* the I/O the invocation has performed, in order
  response,     \* the `res` of the invocation's latest fetch
  isRemote,     \* ctx.isRemote of the login
  dirEnv,       \* process.env.OPENCLAW_AGENT_DIR and PI_CODING_AGENT_DIR
  lpc,          \* where auth.run / runOAuthFlow stands
  flow,         \* their locals: existingKey, the code sent, result, key
  ltrace,       \* the I/O the login has performed, in order
  outcome       \* what auth.run returned or threw

tvars == <<env, ctx, disk, now, issued, acked, invocations, active,
           pc, call, token, mem, seen, attempt, lastError, result, trace, response>>

lvars == <<isRemote, dirEnv, lpc, flow, ltrace, outcome>>

vars == <<tvars, lvars>>

shared == <<env, ctx, disk, now, issued, acked, invocations, active>>

\* no fetch has been answered yet
NoResponse == [kind |-> "none", status |-> 0, ctype |-> "", text |-> <<>>]

\* neither agent-dir variable is set
NoDirEnv == [openclaw |-> Undefined, pi |-> Undefined]

\* auth.run's and runOAuthFlow's locals before the login starts
NoFlow ==
  [existingKey |-> Undefined, code |-> Undefined, key |-> Undefined,
   result |-> [accessToken |-> Undefined, refreshToken |-> Undefined, expiresAt |-> 0,
               email |-> Undefined, apiKey |-> Undefined]]

\* auth.run has neither returned nor thrown
NoOutcome ==
  [state |-> "pending", error |-> "", message |-> <<>>, profileId |-> <<>>,
   credential |-> [x \in {} |-> <<>>]]

NoCall == [tool |-> "", id |-> Undefined, file_data |-> <<>>]
NoCred == Cred(Undefined, Undefined, Undefined, 0)
NoRefreshed == [accessToken |-> Undefined, refreshToken |-> Undefined, expiresAt |-> 0]
NotSeen == [read |-> FALSE, cred |-> NoCred, at |-> 0, refreshed |-> NoRefreshed]
Pending ==
  [state |-> "pending", ok |-> FALSE, already_gone |-> FALSE, data |-> EmptyObj,
   error |-> "", message |-> <<>>]

\* execute returns details {ok, ...data} or {ok: true, already_gone: true}
ReturnOk(ok, alreadyGone, data) ==
  [state |-> "returned", ok |-> ok, already_gone |-> alreadyGone, data |-> data,
   error |-> "", message |-> <<>>]

\* execute rejects with an Error
Throw(kind, msg) ==
  [state |-> "thrown", ok |-> FALSE, already_gone |-> FALSE, data |-> EmptyObj,
   error |-> kind, message |-> msg]

\* one I/O operation of an invocation: op is readFile, oauthToken (a POST to
\* /oauth/token, kind = its grant_type), writeFile, fetch (an API request,
\* kind = its method, token = its bearer, status = the answer's status, 0 for
\* none) or sleep (ms = its length)
Ev(op, kind, tok, ms, status) ==
  [op |-> op, kind |-> kind, token |-> tok, ms |-> ms, status |-> status]

\* no tool invocation has started
ToolsIdle ==
  /\ now = Now0
  /\ issued = 0
  /\ acked = {}
  /\ invocations = 0
  /\ active = {"t1"}
  /\ pc = [p \in Procs |-> "idle"]
  /\ call = [p \in Procs |-> NoCall]
  /\ token = [p \in Procs |-> Undefined]
  /\ mem = [p \in Procs |-> NoProfiles]
  /\ seen = [p \in Procs |-> NotSeen]
  /\ attempt = [p \in Procs |-> 0]
  /\ lastError = [p \in Procs |-> <<>>]
  /\ result = [p \in Procs |-> Pending]
  /\ trace = [p \in Procs |-> <<>>]
  /\ response = [p \in Procs |-> NoResponse]

\* no login has started
LoginIdle ==
  /\ lpc = "idle"
  /\ flow = NoFlow
  /\ ltrace = <<>>
  /\ outcome = NoOutcome

Init ==
  /\ \E w \in Worlds : env = w.env /\ ctx = w.ctx /\ disk = w.disk
  /\ ToolsIdle
  /\ isRemote = FALSE
  /\ dirEnv = NoDirEnv
  /\ LoginIdle

\* execute rejects: the invocation is over
Fail(p, kind, msg) ==
  /\ pc' = [pc EXCEPT ![p] = "settled"]
  /\ result' = [result EXCEPT ![p] = Throw(kind, msg)]

\* a tool's execute is called: getToken runs up to its first await
Invoke(p, c) ==
  /\ p \in active
  /\ pc[p] = "idle"
  /\ invocations < MaxInvocations
  /\ invocations' = invocations + 1
  /\ call' = [call EXCEPT ![p] = c]
  /\ IF EnvOverride(env) # Undefined
       THEN /\ token' = [token EXCEPT ![p] = EnvOverride(env)]
            /\ pc' = [pc EXCEPT ![p] = "request"]
            /\ attempt' = [attempt EXCEPT ![p] = 1]
            /\ UNCHANGED <<result, trace>>
     ELSE IF ContextError(ctx) # ""
       THEN /\ Fail(p, ContextError(ctx), <<ContextError(ctx)>>)
            /\ UNCHANGED <<token, attempt, trace>>
     ELSE /\ pc' = [pc EXCEPT ![p] = "readFile"]
          /\ trace' = [trace EXCEPT ![p] = Append(@, Ev("readFile", "", <<>>, 0, 0))]
          /\ UNCHANGED <<token, attempt, result>>
  /\ UNCHANGED <<env, ctx, disk, now, issued, acked, active, mem, seen, lastError>>
  /\ UNCHANGED <<response, lvars>>

\* fs.readFile and JSON.parse complete: getToken picks its token source
ReadFileDone(p) ==
  /\ pc[p] = "readFile"
  /\ LET profileId == FindProfileId(ctx.config) IN
     IF disk.state # "ok"
       THEN /\ Fail(p, "StoreReadFailed", <<"ENOENT or SyntaxError">>)
            /\ UNCHANGED <<token, mem, seen, attempt, trace>>
     ELSE IF profileId \notin DOMAIN disk.profiles
       THEN /\ Fail(p, "MissingCredential", <<"Missing credential for profile ">> \o profileId)
            /\ mem' = [mem EXCEPT ![p] = disk.profiles]
            /\ UNCHANGED <<token, seen, attempt, trace>>
     ELSE LET cred == disk.profiles[profileId]
              src == TokenSource(cred, now) IN
          /\ mem' = [mem EXCEPT ![p] = disk.profiles]
          /\ seen' = [seen EXCEPT ![p] = [read |-> TRUE, cred |-> cred, at |-> now,
                                             refreshed |-> NoRefreshed]]
          /\ CASE src = "key" ->
                    /\ token' = [token EXCEPT ![p] = cred.key]
                    /\ pc' = [pc EXCEPT ![p] = "request"]
                    /\ attempt' = [attempt EXCEPT ![p] = 1]
                    /\ UNCHANGED <<result, trace>>
               [] src = "access" ->
                    /\ token' = [token EXCEPT ![p] = cred.access]
                    /\ pc' = [pc EXCEPT ![p] = "request"]
                    /\ attempt' = [attempt EXCEPT ![p] = 1]
                    /\ UNCHANGED <<result, trace>>
               [] src = "refresh" ->
                    /\ pc' = [pc EXCEPT ![p] = "refresh"]
                    /\ trace' = [trace EXCEPT ![p] =
                         Append(@, Ev("oauthToken", RefreshRequest(cred.refresh).grant_type,
                                      RefreshRequest(cred.refresh).refresh_token, 0, 0))]
                    /\ UNCHANGED <<token, attempt, result>>
               [] OTHER ->
                    /\ Fail(p, "AllTokensExpired", <<"All tokens expired and no refresh token available">>)
                    /\ UNCHANGED <<token, attempt, trace>>
  /\ UNCHANGED <<shared, call, lastError, response, lvars>>

\* the token endpoint answers the refresh grant
RefreshDone(p, answer) ==
  /\ pc[p] = "refresh"
  /\ LET profileId == FindProfileId(ctx.config)
         old == mem[p][profileId] IN
     IF answer \in {"rotated", "kept"}
       THEN LET refreshed ==
                  [accessToken |-> NewAccess(issued + 1),
                   refreshToken |-> IF answer = "rotated" THEN NewRefresh(issued + 1)
                                    ELSE old.refresh,
                   expiresAt |-> now + ExpiresIn * 1000] IN
            /\ issued' = issued + 1
            /\ seen' = [seen EXCEPT ![p].refreshed = refreshed]
            /\ mem' = [mem EXCEPT ![p][profileId] = ApplyRefresh(old, refreshed)]
            /\ pc' = [pc EXCEPT ![p] = "writeFile"]
            /\ UNCHANGED result
     ELSE /\ Fail(p, IF answer = "rejected" THEN "TokenRefreshFailed" ELSE "NetworkError",
                  IF answer = "rejected" THEN RefreshErrorMessage(400, <<"invalid_grant">>)
                  ELSE FetchFailedMessage)
          /\ UNCHANGED <<issued, mem, seen>>
  /\ UNCHANGED <<env, ctx, disk, now, acked, invocations, active,
                 call, token, attempt, lastError, trace, response, lvars>>

\* faulty variant: a store that changed since it was read is left as it is
WriteFileDone_FirstWriterWins(p, written) ==
  /\ pc[p] = "writeFile"
  /\ IF written
       THEN /\ disk' = IF disk.profiles[FindProfileId(ctx.config)] = seen[p].cred
                         THEN [state |-> "ok", profiles |-> mem[p]] ELSE disk
            /\ trace' = [trace EXCEPT ![p] = Append(@, Ev("writeFile", "", <<>>, 0, 0))]
            /\ token' = [token EXCEPT ![p] = mem[p][FindProfileId(ctx.config)].access]
            /\ pc' = [pc EXCEPT ![p] = "request"]
            /\ attempt' = [attempt EXCEPT ![p] = 1]
            /\ UNCHANGED result
     ELSE /\ Fail(p, "StoreWriteFailed", <<"EACCES">>)
          /\ UNCHANGED <<disk, trace, token, attempt>>
  /\ UNCHANGED <<env, ctx, now, issued, acked, invocations, active,
                 call, mem, seen, lastError, response, lvars>>

\* faulty variant: a failed write is ignored and the new token is used
WriteFileDone_UseOnFailure(p, written) ==
  /\ pc[p] = "writeFile"
  /\ disk' = IF written THEN [state |-> "ok", profiles |-> mem[p]] ELSE disk
  /\ trace' = [trace EXCEPT ![p] = IF written THEN Append(@, Ev("writeFile", "", <<>>, 0, 0))
                                   ELSE @]
  /\ token' = [token EXCEPT ![p] = mem[p][FindProfileId(ctx.config)].access]
  /\ pc' = [pc EXCEPT ![p] = "request"]
  /\ attempt' = [attempt EXCEPT ![p] = 1]
  /\ UNCHANGED <<env, ctx, now, issued, acked, invocations, active,
                 call, mem, seen, lastError, response, result, lvars>>

\* fs.writeFile completes (or fails): getToken returns the refreshed access token
WriteFileDone(p, written) ==
  /\ pc[p] = "writeFile"
  /\ IF written
       THEN /\ disk' = [state |-> "ok", profiles |-> mem[p]]
            /\ trace' = [trace EXCEPT ![p] = Append(@, Ev("writeFile", "", <<>>, 0, 0))]
            /\ token' = [token EXCEPT ![p] = mem[p][FindProfileId(ctx.config)].access]
            /\ pc' = [pc EXCEPT ![p] = "request"]
            /\ attempt' = [attempt EXCEPT ![p] = 1]
            /\ UNCHANGED result
     ELSE /\ Fail(p, "StoreWriteFailed", <<"EACCES">>)
          /\ UNCHANGED <<disk, trace, token, attempt>>
  /\ UNCHANGED <<env, ctx, now, issued, acked, invocations, active,
                 call, mem, seen, lastError, response, lvars>>

\* the resource a delete tool addresses
Resource(c) ==
  <<IF c.tool = "sandbox_destroy_session" THEN "session" ELSE "file", c.id>>

\* the fetch of one request and everything execute does with its answer,
\* up to the next await or the end of execute
Request(p, res) ==
  /\ pc[p] = "request"
  /\ res \in Responses
  /\ LET c == call[p]
         ep == Endpoint(c)
         fetch == Ev("fetch", Method(c.tool), token[p], 0, res.status) IN
     IF c.tool \in UploadTools
       THEN LET out == apiUploadFile(ep, c.file_data, res) IN
            /\ trace' = [trace EXCEPT ![p] =
                          IF base64RegexTest(c.file_data) THEN Append(@, fetch) ELSE @]
            /\ IF out.thrown THEN Fail(p, out.error, out.message)
               ELSE /\ pc' = [pc EXCEPT ![p] = "settled"]
                    /\ result' = [result EXCEPT ![p] = ReturnOk(TRUE, FALSE, out.data)]
            /\ UNCHANGED lastError
     ELSE IF c.tool \in SimpleTools
       THEN LET out == apiRequest(Method(c.tool), ep, res) IN
            /\ trace' = [trace EXCEPT ![p] = Append(@, fetch)]
            /\ IF out.thrown THEN Fail(p, out.error, out.message)
               ELSE /\ pc' = [pc EXCEPT ![p] = "settled"]
                    /\ result' = [result EXCEPT ![p] =
                                   ReturnOk(DetailsOk(c, out.data), FALSE, out.data)]
            /\ UNCHANGED lastError
     ELSE LET out == apiRequest("DELETE", ep, res) IN
          /\ IF ~out.thrown
               THEN /\ pc' = [pc EXCEPT ![p] = "settled"]
                    /\ result' = [result EXCEPT ![p] = ReturnOk(TRUE, FALSE, out.data)]
                    /\ trace' = [trace EXCEPT ![p] = Append(@, fetch)]
                    /\ UNCHANGED lastError
             ELSE /\ lastError' = [lastError EXCEPT ![p] = out.message]
                  /\ CASE CatchDecision(out.message, attempt[p]) = "already_gone" ->
                            /\ pc' = [pc EXCEPT ![p] = "settled"]
                            /\ result' = [result EXCEPT ![p] = ReturnOk(TRUE, TRUE, EmptyObj)]
                            /\ trace' = [trace EXCEPT ![p] = Append(@, fetch)]
                       [] CatchDecision(out.message, attempt[p]) = "throw" ->
                            /\ Fail(p, out.error, out.message)
                            /\ trace' = [trace EXCEPT ![p] = Append(@, fetch)]
                       [] OTHER ->
                            /\ pc' = [pc EXCEPT ![p] = "sleep"]
                            /\ trace' = [trace EXCEPT ![p] =
                                 @ \o <<fetch, Ev("sleep", "", <<>>, BackoffMs(attempt[p]), 0)>>]
                            /\ UNCHANGED result
  /\ response' = [response EXCEPT ![p] =
        IF call[p].tool \in UploadTools /\ ~base64RegexTest(call[p].file_data) THEN @ ELSE res]
  /\ UNCHANGED <<env, ctx, disk, now, issued, acked, invocations, active,
                 call, token, mem, seen, attempt, lvars>>

\* faulty variant: the next attempt resolves the token again
Wake_ResolveAgain(p) ==
  /\ pc[p] = "sleep"
  /\ attempt' = [attempt EXCEPT ![p] = @ + 1]
  /\ pc' = [pc EXCEPT ![p] = "readFile"]
  /\ trace' = [trace EXCEPT ![p] = Append(@, Ev("readFile", "", <<>>, 0, 0))]
  /\ UNCHANGED <<shared, call, token, mem, seen, lastError, result, response, lvars>>

\* the backoff timer fires: the loop enters its next attempt
Wake(p) ==
  /\ pc[p] = "sleep"
  /\ attempt' = [attempt EXCEPT ![p] = @ + 1]
  /\ pc' = [pc EXCEPT ![p] = "request"]
  /\ UNCHANGED <<shared, call, token, mem, seen, lastError, result, trace, response, lvars>>

\* the caller has taken the outcome: the slot is free for the next invocation
Settle(p) ==
  /\ pc[p] = "settled"
  /\ pc' = [pc EXCEPT ![p] = "idle"]
  /\ call' = [call EXCEPT ![p] = NoCall]
  /\ token' = [token EXCEPT ![p] = Undefined]
  /\ mem' = [mem EXCEPT ![p] = NoProfiles]
  /\ seen' = [seen EXCEPT ![p] = NotSeen]
  /\ attempt' = [attempt EXCEPT ![p] = 0]
  /\ lastError' = [lastError EXCEPT ![p] = <<>>]
  /\ result' = [result EXCEPT ![p] = Pending]
  /\ trace' = [trace EXCEPT ![p] = <<>>]
  /\ response' = [response EXCEPT ![p] = NoResponse]
  /\ acked' = IF call[p].tool \in DeleteTools /\ result[p].state = "returned" /\ result[p].ok
               THEN acked \cup {Resource(call[p])} ELSE acked
  /\ UNCHANGED <<env, ctx, disk, now, issued, invocations, active, lvars>>

Next ==
  \/ \E p \in Procs, c \in Calls : Invoke(p, c)
  \/ \E p \in Procs : ReadFileDone(p)
  \/ \E p \in Procs, answer \in RefreshAnswers : RefreshDone(p, answer)
  \/ \E p \in Procs, written \in BOOLEAN : WriteFileDone(p, written)
  \/ \E p \in Procs, res \in Responses : Request(p, res)
  \/ \E p \in Procs : Wake(p)
  \/ \E p \in Procs : Settle(p)

Spec == Init /\ [][Next]_vars

\* ===================================================================== login
\* crypto.randomBytes(16).toString("hex") and randomBytes(32).toString("base64url")
\* of the one login modelled, and a state that some other party made up
LocalState == <<"state-1">>
Verifier == <<"verifier-1">>
ForeignState == <<"state-x">>
AuthCode == <<"code-1">>

\* REDIRECT_URI, as the head of a pasted redirect URL
RedirectUri == "http://localhost:51199/callback"

\* the query string ?code=<c>&state=<s>; Undefined leaves the parameter out
Query(c, s) ==
  (IF c = Undefined /\ s = Undefined THEN <<>> ELSE <<"?">>)
  \o (IF c = Undefined THEN <<>> ELSE <<"code=">> \o c)
  \o (IF c # Undefined /\ s # Undefined THEN <<"&">> ELSE <<>>)
  \o (IF s = Undefined THEN <<>> ELSE <<"state=">> \o s)

\* new URL(text) succeeds: the text starts with an absolute URL
IsUrl(text) == text # <<>> /\ Head(text) = RedirectUri

\* url.searchParams.get(name): null (Undefined) when the parameter is absent,
\* otherwise its value, "" when nothing follows the "="
SearchParam(text, name) ==
  LET hits == {i \in 2..Len(text) : text[i] = name} IN
  IF hits = {} THEN Undefined
  ELSE LET i == CHOOSE h \in hits : \A j \in hits : h <= j IN
       IF i < Len(text) /\ text[i + 1] \notin {"&", "code=", "state="}
         THEN <<text[i + 1]>> ELSE <<>>

\* parseCallbackInput: the throw on a missing code lands in its own catch
parseCallbackInput(input) ==
  LET trimmed == Trim(input) IN
  IF IsUrl(trimmed) /\ Truthy(SearchParam(trimmed, "code="))
    THEN [code |-> SearchParam(trimmed, "code="), state |-> SearchParam(trimmed, "state=")]
  ELSE [code |-> trimmed, state |-> Undefined]

\* the listener's request handler: code and state of req.url
CallbackParams(url) ==
  [code |-> SearchParam(url, "code="), state |-> SearchParam(url, "state=")]

\* faulty variant: an absent state counts as a mismatch
StateMismatch_Strict(parsed) == parsed.state # LocalState

\* parsed.state && parsed.state !== state
StateMismatch(parsed) == Truthy(parsed.state) /\ parsed.state # LocalState

\* what the user may paste at the prompt
PastedInputs ==
  {<<" ">> \o AuthCode \o <<" ">>,
   <<RedirectUri>> \o Query(AuthCode, LocalState),
   <<" ", RedirectUri>> \o Query(AuthCode, ForeignState) \o <<" ">>,
   <<RedirectUri>> \o Query(AuthCode, Undefined),
   <<RedirectUri>> \o Query(AuthCode, <<>>),
   <<RedirectUri>> \o Query(Undefined, ForeignState)}

\* the req.url of the request that reaches the listener
CallbackUrls ==
  {<<"/callback">> \o Query(AuthCode, LocalState),
   <<"/callback">> \o Query(AuthCode, ForeignState),
   <<"/callback">> \o Query(AuthCode, Undefined),
   <<"/callback">> \o Query(Undefined, LocalState),
   <<"/favicon.ico">>}

\* server.listen: the listening callback runs, or createServer/listen throws
\* inside the promise executor, or the server emits 'error' (EADDRINUSE),
\* for which no handler is registered
ListenOutcomes == {"listening", "throws", "errorEvent"}

LoginAccess == <<"login-access">>
LoginRefresh == <<"login-refresh">>
ExchangedKey == <<"exchanged-key">>
CreatedKey == <<"created-key">>
Email == <<"user@test.com">>

\* answers of the token endpoint to the code exchange: a grant (api_key null,
\* "" or a key; email absent or given), a rejection, no answer
ExchangeGrants ==
  {[kind |-> "ok", apiKey |-> k, email |-> e] :
     k \in {Undefined, <<>>, ExchangedKey}, e \in {Undefined, Email}}
ExchangeAnswers ==
  ExchangeGrants \cup {[kind |-> k, apiKey |-> Undefined, email |-> Undefined] :
                         k \in {"rejected", "network"}}

ExchangeErrorMessage(status, text) ==
  <<"Token exchange failed ", "(">> \o StatusText(status) \o <<")", ": ">> \o text

\* answers of POST /v1/api-keys
CreateKeyAnswers == {"created", "noKeyValue", "rejected", "network"}

\* process.env.OPENCLAW_AGENT_DIR and PI_CODING_AGENT_DIR
DirEnvs ==
  {NoDirEnv,
   [openclaw |-> <<"/tmp/agent">>, pi |-> Undefined],
   [openclaw |-> Undefined, pi |-> <<"/tmp/agent">>],
   [openclaw |-> <<>>, pi |-> <<"/tmp/agent">>]}

\* process.env.OPENCLAW_AGENT_DIR ?? process.env.PI_CODING_AGENT_DIR
LoginAgentDir(d) == IF d.openclaw # Undefined THEN d.openclaw ELSE d.pi

\* the stores a login may find
LoginDisks ==
  {[state |-> "missing", profiles |-> NoProfiles],
   [state |-> "corrupt", profiles |-> NoProfiles],
   [state |-> "ok", profiles |-> OtherOnly],
   [state |-> "ok", profiles |-> StoreWith(Cred(PermanentKey, OldAccess, OldRefresh, Now0 - 1000))],
   [state |-> "ok", profiles |-> StoreWith(Cred(Undefined, OldAccess, OldRefresh, Now0 - 1000))]}

\* one I/O operation of the login: readFile, listen, openUrl, uncaught (the
\* unhandled 'error' event), callback (data = req.url), close, prompt (kind =
\* remote or fallback), input (data = the pasted text), exchange (a POST to
\* /oauth/token, kind = its grant_type, data = its code, aux = its
\* code_verifier), createKey (data = its bearer)
LEv(op, kind, data, aux) == [op |-> op, kind |-> kind, data |-> data, aux |-> aux]

PromptEv(kind) == LEv("prompt", kind, <<>>, <<>>)
ExchangeEv(code) == LEv("exchange", "authorization_code", code, Verifier)

LoginInit ==
  /\ env = Undefined
  /\ ctx \in {c \in Contexts : c.agentDir = Undefined}
  /\ disk \in LoginDisks
  /\ ToolsIdle
  /\ isRemote \in BOOLEAN
  /\ dirEnv \in DirEnvs
  /\ LoginIdle

\* auth.run throws
FailLogin(kind, msg) ==
  /\ lpc' = "failed"
  /\ outcome' = [NoOutcome EXCEPT !.state = "thrown", !.error = kind, !.message = msg]

\* faulty variant: the listener is started whatever isRemote says
StartFlow_AlwaysLocal(tr) ==
  /\ lpc' = "listen"
  /\ ltrace' = Append(tr, LEv("listen", "", <<>>, <<>>))

\* runOAuthFlow up to its first await, after the events tr
StartFlow(tr) ==
  IF isRemote
    THEN /\ lpc' = "prompt"
         /\ ltrace' = Append(tr, PromptEv("remote"))
  ELSE /\ lpc' = "listen"
       /\ ltrace' = Append(tr, LEv("listen", "", <<>>, <<>>))

\* the catch block of the local mode: it catches what listenForCallback
\* rejects with and what the state check throws, not a rejection of the
\* promise that `return exchangeCode(...)` hands back
Fallback(tr) ==
  /\ lpc' = "prompt"
  /\ ltrace' = Append(tr, PromptEv("fallback"))

\* auth.run is called: the lookup of the existing profile, up to the first await
AuthRun ==
  /\ lpc = "idle"
  /\ IF Truthy(FindProfileId(ctx.config)) /\ Truthy(LoginAgentDir(dirEnv))
       THEN /\ lpc' = "readStore"
            /\ ltrace' = Append(ltrace, LEv("readFile", "", <<>>, <<>>))
            /\ UNCHANGED flow
     ELSE /\ StartFlow(ltrace)
          /\ UNCHANGED flow
  /\ UNCHANGED <<tvars, isRemote, dirEnv, outcome>>

\* fs.readFile and JSON.parse complete or throw; then runOAuthFlow starts
AuthReadDone ==
  /\ lpc = "readStore"
  /\ LET id == FindProfileId(ctx.config)
         existingKey == IF disk.state = "ok" /\ id \in DOMAIN disk.profiles
                          THEN disk.profiles[id].key ELSE Undefined IN
     flow' = [flow EXCEPT !.existingKey = existingKey]
  /\ StartFlow(ltrace)
  /\ UNCHANGED <<tvars, isRemote, dirEnv, outcome>>

\* the outcome of server.listen
ListenOutcome(o) ==
  /\ lpc = "listen"
  /\ CASE o = "listening" ->
            /\ lpc' = "waiting"
            /\ ltrace' = Append(ltrace, LEv("openUrl", "", <<>>, <<>>))
            /\ UNCHANGED flow
       [] o = "throws" ->
            /\ Fallback(ltrace)
            /\ UNCHANGED flow
       [] OTHER ->
            /\ lpc' = "stuck"
            /\ ltrace' = Append(ltrace, LEv("uncaught", "", <<>>, <<>>))
            /\ UNCHANGED flow
  /\ UNCHANGED <<tvars, isRemote, dirEnv, outcome>>

\* server.listening: the listening callback has run (it calls openUrl) and
\* server.close() has not been called since
ServerListening ==
  \E i \in DOMAIN ltrace :
    /\ ltrace[i].op = "openUrl"
    /\ \A j \in DOMAIN ltrace : ltrace[j].op = "close" => j < i

\* faulty variant: the handler closes the server only when it resolves
CallbackArrives_CloseOnCode(url) ==
  /\ ServerListening
  /\ LET parsed == CallbackParams(url)
         got == Append(ltrace, LEv("callback", "", url, <<>>))
         tr == IF Truthy(parsed.code) THEN Append(got, LEv("close", "", <<>>, <<>>))
               ELSE got IN
     IF lpc # "waiting"
       THEN /\ ltrace' = tr
            /\ UNCHANGED <<lpc, flow>>
     ELSE IF ~Truthy(parsed.code) \/ StateMismatch(parsed)
       THEN /\ Fallback(tr)
            /\ UNCHANGED flow
     ELSE /\ lpc' = "exchange"
          /\ ltrace' = Append(tr, ExchangeEv(parsed.code))
          /\ flow' = [flow EXCEPT !.code = parsed.code]
  /\ UNCHANGED <<tvars, isRemote, dirEnv, outcome>>

\* a request reaches the listening server: the handler answers, closes the
\* server and settles the promise (a settled promise stays as it is);
\* runOAuthFlow goes on inside its try block
CallbackArrives(url) ==
  /\ ServerListening
  /\ LET parsed == CallbackParams(url)
         tr == ltrace \o <<LEv("callback", "", url, <<>>), LEv("close", "", <<>>, <<>>)>> IN
     IF lpc # "waiting"
       THEN /\ ltrace' = tr
            /\ UNCHANGED <<lpc, flow>>
     ELSE IF ~Truthy(parsed.code) \/ StateMismatch(parsed)
       THEN /\ Fallback(tr)
            /\ UNCHANGED flow
     ELSE /\ lpc' = "exchange"
          /\ ltrace' = Append(tr, ExchangeEv(parsed.code))
          /\ flow' = [flow EXCEPT !.code = parsed.code]
  /\ UNCHANGED <<tvars, isRemote, dirEnv, outcome>>

\* opts.prompt resolves with the pasted text
PromptAnswered(input) ==
  /\ lpc = "prompt"
  /\ LET parsed == parseCallbackInput(input)
         tr == Append(ltrace, LEv("input", "", input, <<>>)) IN
     IF StateMismatch(parsed)
       THEN /\ FailLogin("OAuthStateMismatch", <<"OAuth state mismatch">>)
            /\ ltrace' = tr
            /\ UNCHANGED flow
     ELSE /\ lpc' = "exchange"
          /\ ltrace' = Append(tr, ExchangeEv(parsed.code))
          /\ flow' = [flow EXCEPT !.code = parsed.code]
          /\ UNCHANGED outcome
  /\ UNCHANGED <<tvars, isRemote, dirEnv>>

\* result.apiKey ?? existingKey ?? undefined
LoginKey(apiKey, existingKey) == IF apiKey # Undefined THEN apiKey ELSE existingKey

\* auth.run returns the profile: the key field only when key is truthy
Finish(res, key) ==
  /\ lpc' = "done"
  /\ outcome' =
       [NoOutcome EXCEPT
          !.state = "returned",
          !.profileId = <<"agentsandbox:">>
                          \o (IF res.email # Undefined THEN res.email ELSE <<"default">>),
          !.credential =
             [type |-> "oauth", provider |-> ProviderId, access |-> res.accessToken,
              refresh |-> res.refreshToken, expires |-> res.expiresAt,
              email |-> res.email, key |-> IF Truthy(key) THEN key ELSE Undefined]]

\* faulty variant: in local mode the catch block also catches a failed exchange
ExchangeDone_Caught(ans) ==
  /\ lpc = "exchange"
  /\ IF ans.kind = "ok"
       THEN LET res == [accessToken |-> LoginAccess, refreshToken |-> LoginRefresh,
                           expiresAt |-> now + ExpiresIn * 1000,
                           email |-> ans.email, apiKey |-> ans.apiKey]
                key == LoginKey(res.apiKey, flow.existingKey) IN
            /\ flow' = [flow EXCEPT !.result = res, !.key = key]
            /\ IF ~Truthy(key)
                 THEN /\ lpc' = "createKey"
                      /\ ltrace' = Append(ltrace, LEv("createKey", "", res.accessToken, <<>>))
                      /\ UNCHANGED outcome
               ELSE /\ Finish(res, key)
                    /\ UNCHANGED ltrace
     ELSE IF ~isRemote /\ \A k \in DOMAIN ltrace : ltrace[k].op # "prompt"
       THEN /\ Fallback(ltrace)
            /\ UNCHANGED <<flow, outcome>>
     ELSE /\ FailLogin(IF ans.kind = "rejected" THEN "TokenExchangeFailed" ELSE "NetworkError",
                       IF ans.kind = "rejected"
                         THEN ExchangeErrorMessage(400, <<"invalid_code">>)
                       ELSE FetchFailedMessage)
          /\ UNCHANGED <<flow, ltrace>>
  /\ UNCHANGED <<tvars, isRemote, dirEnv>>

\* the token endpoint answers the code exchange; on a grant runOAuthFlow
\* returns and auth.run picks the key
ExchangeDone(ans) ==
  /\ lpc = "exchange"
  /\ IF ans.kind = "ok"
       THEN LET res == [accessToken |-> LoginAccess, refreshToken |-> LoginRefresh,
                           expiresAt |-> now + ExpiresIn * 1000,
                           email |-> ans.email, apiKey |-> ans.apiKey]
                key == LoginKey(res.apiKey, flow.existingKey) IN
            /\ flow' = [flow EXCEPT !.result = res, !.key = key]
            /\ IF ~Truthy(key)
                 THEN /\ lpc' = "createKey"
                      /\ ltrace' = Append(ltrace, LEv("createKey", "", res.accessToken, <<>>))
                      /\ UNCHANGED outcome
               ELSE /\ Finish(res, key)
                    /\ UNCHANGED ltrace
     ELSE /\ FailLogin(IF ans.kind = "rejected" THEN "TokenExchangeFailed" ELSE "NetworkError",
                       IF ans.kind = "rejected"
                         THEN ExchangeErrorMessage(400, <<"invalid_code">>)
                       ELSE FetchFailedMessage)
          /\ UNCHANGED <<flow, ltrace>>
  /\ UNCHANGED <<tvars, isRemote, dirEnv>>

\* POST /v1/api-keys is answered, or fails, which is not fatal
CreateKeyDone(ans) ==
  /\ lpc = "createKey"
  /\ LET key == IF ans = "created" THEN CreatedKey ELSE flow.key IN
     /\ flow' = [flow EXCEPT !.key = key]
     /\ Finish(flow.result, key)
  /\ UNCHANGED <<tvars, isRemote, dirEnv, ltrace>>

LoginNext ==
  \/ AuthRun
  \/ AuthReadDone
  \/ \E o \in ListenOutcomes : ListenOutcome(o)
  \/ \E url \in CallbackUrls : CallbackArrives(url)
  \/ \E input \in PastedInputs : PromptAnswered(input)
  \/ \E ans \in ExchangeAnswers : ExchangeDone(ans)
  \/ \E ans \in CreateKeyAnswers : CreateKeyDone(ans)

SpecLogin == LoginInit /\ [][LoginNext]_vars

\* =============================================================== concurrency
\* two invocations run at once on one store: getToken takes no lock, so the
\* steps of the two interleave at every await

\* the context and the store both invocations start from: the profile is
\* configured, its record has no key and its access token has expired
ConcContext ==
  [config |-> <<[id |-> OtherProfileId, provider |-> "openai"],
                [id |-> ProfileId, provider |-> ProviderId]>>,
   agentDir |-> <<"/tmp/agent">>]
ExpiredStore ==
  [state |-> "ok", profiles |-> StoreWith(Cred(Undefined, OldAccess, OldRefresh, Now0 - 1000))]

\* the tool called and the answers of the API in the concurrent runs
ConcCalls == {[tool |-> "sandbox_get_session", id |-> PlainId, file_data |-> <<>>]}
ConcResponses ==
  {Http(200, "application/json", JsonReturnCode), Http(401, "text/plain", <<"Internal error">>)}

\* both slots may run an invocation
ConcIdle ==
  /\ env = Undefined
  /\ ctx = ConcContext
  /\ disk = ExpiredStore
  /\ now = Now0
  /\ issued = 0
  /\ acked = {}
  /\ invocations = 0
  /\ active = Procs
  /\ pc = [p \in Procs |-> "idle"]
  /\ call = [p \in Procs |-> NoCall]
  /\ token = [p \in Procs |-> Undefined]
  /\ mem = [p \in Procs |-> NoProfiles]
  /\ seen = [p \in Procs |-> NotSeen]
  /\ attempt = [p \in Procs |-> 0]
  /\ lastError = [p \in Procs |-> <<>>]
  /\ result = [p \in Procs |-> Pending]
  /\ trace = [p \in Procs |-> <<>>]
  /\ response = [p \in Procs |-> NoResponse]

ConcInit ==
  /\ ConcIdle
  /\ isRemote = FALSE
  /\ dirEnv = NoDirEnv
  /\ LoginIdle

\* the token endpoint grants or refuses each refresh as it likes
ConcNext ==
  \/ \E p \in Procs, c \in ConcCalls : Invoke(p, c)
  \/ \E p \in Procs : ReadFileDone(p)
  \/ \E p \in Procs, answer \in RefreshAnswers : RefreshDone(p, answer)
  \/ \E p \in Procs, written \in BOOLEAN : WriteFileDone(p, written)
  \/ \E p \in Procs, res \in ConcResponses : Request(p, res)
  \/ \E p \in Procs : Settle(p)

SpecConc == ConcInit /\ [][ConcNext]_vars

\* ------------------------------------------------------- rotating server
\* the refresh token a rotating token endpoint accepts: the one of its
\* latest grant, the stored one before any grant
ValidRefresh == IF issued = 0 THEN OldRefresh ELSE NewRefresh(issued)

\* the token endpoint rotates: it grants a refresh that presents the valid
\* refresh token, which it replaces, and rejects any other
RotatingRefresh(p) ==
  /\ pc[p] = "refresh"
  /\ RefreshDone(p, IF mem[p][FindProfileId(ctx.config)].refresh = ValidRefresh
                      THEN "rotated" ELSE "rejected")

\* a login for another account has returned its profile (remote mode, a
\* pasted code, a grant without an email and with a key)
LoginReturned ==
  LET res == [accessToken |-> LoginAccess, refreshToken |-> LoginRefresh,
              expiresAt |-> Now0 + ExpiresIn * 1000,
              email |-> Undefined, apiKey |-> ExchangedKey] IN
  /\ isRemote = TRUE
  /\ dirEnv = NoDirEnv
  /\ lpc = "done"
  /\ flow = [existingKey |-> Undefined, code |-> AuthCode, key |-> ExchangedKey,
             result |-> res]
  /\ ltrace = <<PromptEv("remote"), LEv("input", "", <<" ">> \o AuthCode \o <<" ">>, <<>>),
                ExchangeEv(AuthCode)>>
  /\ outcome =
       [NoOutcome EXCEPT
          !.state = "returned",
          !.profileId = <<"agentsandbox:", "default">>,
          !.credential =
             [type |-> "oauth", provider |-> ProviderId, access |-> LoginAccess,
              refresh |-> LoginRefresh, expires |-> Now0 + ExpiresIn * 1000,
              email |-> Undefined, key |-> ExchangedKey]]

\* the host stores the profile that the login returned: the record is added
\* to the store under its profile id
HostStoresProfile ==
  /\ lpc = "done" /\ outcome.state = "returned"
  /\ disk.state = "ok"
  /\ disk' = [disk EXCEPT !.profiles =
                [x \in DOMAIN @ \cup {outcome.profileId} |->
                   IF x = outcome.profileId THEN outcome.credential ELSE @[x]]]
  /\ lpc' = "stored"
  /\ UNCHANGED <<env, ctx, now, issued, acked, invocations, active, pc, call, token,
                 mem, seen, attempt, lastError, result, trace, response>>
  /\ UNCHANGED <<isRemote, dirEnv, flow, ltrace, outcome>>

RotInit ==
  /\ ConcIdle
  /\ LoginReturned

\* the invocations interleave with each other and with the host's write;
\* every write of the store succeeds
RotNext ==
  \/ \E p \in Procs, c \in ConcCalls : Invoke(p, c)
  \/ \E p \in Procs : ReadFileDone(p)
  \/ \E p \in Procs : RotatingRefresh(p)
  \/ \E p \in Procs : WriteFileDone(p, TRUE)
  \/ \E p \in Procs, res \in ConcResponses : Request(p, res)
  \/ \E p \in Procs : Settle(p)
  \/ HostStoresProfile

SpecRot == RotInit /\ [][RotNext]_vars

\* ================================================================== claims
\* positions of the trace of p that hold an operation of kind op
Ops(p, op) == {i \in DOMAIN trace[p] : trace[p][i].op = op}
Count(p, op) == Cardinality(Ops(p, op))

\* getToken has returned to execute
Resolved(p) == pc[p] \in {"request", "sleep"} \/ (pc[p] = "settled" /\ token[p] # Undefined)

\* the errors getToken itself raises
GetTokenErrors ==
  {"NoProfileFound", "MissingAgentContext", "MissingCredential", "AllTokensExpired",
   "StoreReadFailed", "TokenRefreshFailed", "StoreWriteFailed"}

\* the env override applies: the variable is set and not blank
EnvSet == env # Undefined /\ Trim(env) # <<>>

\* C1: when SANDBOX_API_KEY is non-empty after trimming, every invocation of
\* every tool resolves its token to the trimmed value, whatever config,
\* agentDir and store hold; it reads and writes no store file, posts nothing to
\* the token endpoint, and every API request carries the trimmed value.
C1_EnvOverride ==
  \A p \in Procs :
    (pc[p] # "idle" /\ EnvSet) =>
      /\ token[p] = Trim(env)
      /\ token[p] # <<>> /\ Head(token[p]) # " " /\ token[p][Len(token[p])] # " "
      /\ ~seen[p].read
      /\ \A i \in DOMAIN trace[p] :
           /\ trace[p][i].op \in {"fetch", "sleep"}
           /\ trace[p][i].op = "fetch" => trace[p][i].token = Trim(env)
      /\ result[p].error \notin GetTokenErrors

\* C1 witness: an invocation settled with a result under the env override,
\* in a context with no profile and no agentDir
C1_Witness ==
  \E p \in Procs :
    /\ pc[p] = "settled" /\ EnvSet /\ result[p].state = "returned"
    /\ ctx.config = <<>> /\ ctx.agentDir = Undefined
    /\ Count(p, "fetch") = 1 /\ trace[p][1].token = EnvKey

\* the record getToken read has a non-empty key
SawKey(p) == seen[p].read /\ seen[p].cred.key \notin {Undefined, <<>>}

\* C2: with the env override unset and the record read, a non-empty key is
\* the token, whatever access, expires and refresh are; nothing is posted to
\* the token endpoint and the store is not written.
C2_KeyFirst ==
  \A p \in Procs :
    SawKey(p) =>
      /\ ~EnvSet
      /\ pc[p] \in {"request", "sleep", "settled"}
      /\ token[p] = seen[p].cred.key
      /\ Count(p, "oauthToken") = 0 /\ Count(p, "writeFile") = 0
      /\ \A i \in Ops(p, "fetch") : trace[p][i].token = seen[p].cred.key

\* C2 witness: the key was used although the record also held an expired
\* access token and a refresh token
C2_Witness ==
  \E p \in Procs :
    /\ pc[p] = "settled" /\ SawKey(p) /\ result[p].state = "returned"
    /\ seen[p].cred.access = OldAccess /\ seen[p].cred.refresh = OldRefresh
    /\ seen[p].cred.expires < seen[p].at
    /\ Count(p, "fetch") = 1 /\ trace[p][2].token = PermanentKey

\* the record getToken read has no key (absent or empty) and an access token
SawAccessNoKey(p) ==
  /\ seen[p].read /\ seen[p].cred.key \in {Undefined, <<>>}
  /\ seen[p].cred.access \notin {Undefined, <<>>}

\* C3: with no key, an access token whose expires lies more than five minutes
\* after now is the token, with no refresh and no store write; at
\* now = expires - 5 min exactly, and later, no request carries it.
C3_AccessWindow ==
  \A p \in Procs :
    SawAccessNoKey(p) =>
      /\ seen[p].cred.expires > seen[p].at + 5 * 60 * 1000 =>
           /\ pc[p] \in {"request", "sleep", "settled"}
           /\ token[p] = seen[p].cred.access
           /\ Count(p, "oauthToken") = 0 /\ Count(p, "writeFile") = 0
      /\ seen[p].at >= seen[p].cred.expires - 5 * 60 * 1000 =>
           /\ token[p] # seen[p].cred.access
           /\ \A i \in Ops(p, "fetch") : trace[p][i].token # seen[p].cred.access

\* C3 witness: a request was made with the stored access token, one
\* millisecond inside the window, while a refresh token was at hand
C3_Witness ==
  \E p \in Procs :
    /\ pc[p] = "settled" /\ SawAccessNoKey(p)
    /\ seen[p].cred.expires = seen[p].at + 5 * 60 * 1000 + 1
    /\ seen[p].cred.refresh = OldRefresh
    /\ Count(p, "fetch") = 1 /\ trace[p][2].token = OldAccess

\* the record read has no key, an access token that is expired or within the
\* buffer, and a refresh token
SawStaleWithRefresh(p) ==
  /\ SawAccessNoKey(p)
  /\ seen[p].cred.expires <= seen[p].at + 5 * 60 * 1000
  /\ seen[p].cred.refresh \notin {Undefined, <<>>}

\* the tokens the server has issued so far
IssuedAccess == {NewAccess(n) : n \in 1..issued}

\* C4: for such a record one getToken call posts exactly one refresh grant,
\* carrying the stored refresh token; when the grant and the store write
\* succeed, the store was written exactly once, with the rotated tokens, before
\* getToken returned, the token is the newly issued access token, and it is the
\* bearer of every API request that follows.
C4_RefreshOnce ==
  \A p \in Procs :
    SawStaleWithRefresh(p) =>
      /\ Count(p, "oauthToken") = 1
      /\ \A i \in Ops(p, "oauthToken") :
           /\ trace[p][i].kind = "refresh_token"
           /\ trace[p][i].token = seen[p].cred.refresh
      /\ Count(p, "writeFile") <= 1
      /\ ~Resolved(p) => Count(p, "fetch") = 0
      /\ Resolved(p) =>
           /\ Count(p, "writeFile") = 1
           /\ token[p] \in IssuedAccess
           /\ token[p] # seen[p].cred.access
           /\ mem[p][ProfileId].access = token[p]
           /\ \A i \in Ops(p, "fetch") :
                /\ trace[p][i].token = token[p]
                /\ \E o \in Ops(p, "oauthToken"), w \in Ops(p, "writeFile") : o < w /\ w < i

\* C4 witness: an invocation that refreshed, wrote the rotated tokens, and
\* whose request carried the new access token
C4_Witness ==
  \E p \in Procs :
    /\ pc[p] = "settled" /\ SawStaleWithRefresh(p) /\ result[p].state = "returned"
    /\ Count(p, "oauthToken") = 1 /\ Count(p, "writeFile") = 1 /\ Count(p, "fetch") = 1
    /\ trace[p][4].token = NewAccess(1)
    /\ disk.profiles[ProfileId].access = NewAccess(1)
    /\ disk.profiles[ProfileId].refresh = NewRefresh(1)

\* the record read has no key, no access token that is still usable, and no
\* refresh token
SawNothingUsable(p) ==
  /\ seen[p].read /\ seen[p].cred.key \in {Undefined, <<>>}
  /\ ~(seen[p].cred.access \notin {Undefined, <<>>}
       /\ seen[p].cred.expires > seen[p].at + 5 * 60 * 1000)
  /\ seen[p].cred.refresh \in {Undefined, <<>>}

\* C5: for such a record (env override unset) the invocation fails with
\* AllTokensExpired, having posted no refresh grant, written no store and sent
\* no API request.
C5_AllTokensExpired ==
  \A p \in Procs :
    SawNothingUsable(p) =>
      /\ ~EnvSet
      /\ pc[p] = "settled" /\ result[p].state = "thrown"
      /\ result[p].error = "AllTokensExpired"
      /\ token[p] = Undefined
      /\ Count(p, "oauthToken") = 0 /\ Count(p, "writeFile") = 0 /\ Count(p, "fetch") = 0

\* C5 witness: the failure on a record whose access token is expired and
\* which has no refresh token
C5_Witness ==
  \E p \in Procs :
    /\ pc[p] = "settled" /\ SawNothingUsable(p)
    /\ seen[p].cred.access = OldAccess /\ seen[p].cred.expires = seen[p].at - 1000
    /\ result[p].error = "AllTokensExpired"

\* the config has a profile whose provider is agentsandbox
HasSandboxProfile == \E i \in DOMAIN ctx.config : ctx.config[i].provider = "agentsandbox"

\* the store file parses and has no record under the id of that profile
StoreLacksRecord ==
  /\ disk.state = "ok"
  /\ \A i \in DOMAIN ctx.config :
       ctx.config[i].provider = "agentsandbox" => ctx.config[i].id \notin DOMAIN disk.profiles

\* C6: with the env override unset getToken fails, in this order of checks,
\* with NoProfileFound when no profile has provider agentsandbox (agentDir
\* present or not), with MissingAgentContext when there is one and agentDir
\* is absent, and with MissingCredential when both are present and the store
\* has no record under the profile id; no API request is sent and the store
\* is not written.
C6_ContextErrors ==
  \A p \in Procs :
    (pc[p] # "idle" /\ ~EnvSet) =>
      /\ ~HasSandboxProfile =>
           pc[p] = "settled" /\ result[p].error = "NoProfileFound" /\ trace[p] = <<>>
      /\ (HasSandboxProfile /\ ctx.agentDir = Undefined) =>
           pc[p] = "settled" /\ result[p].error = "MissingAgentContext" /\ trace[p] = <<>>
      /\ (HasSandboxProfile /\ ctx.agentDir # Undefined /\ StoreLacksRecord) =>
           /\ pc[p] \in {"readFile", "settled"}
           /\ pc[p] = "settled" => result[p].error = "MissingCredential"
           /\ Count(p, "fetch") = 0 /\ Count(p, "writeFile") = 0 /\ Count(p, "oauthToken") = 0

\* C6 witness: NoProfileFound in a context that lacks the agentDir as well
C6_Witness ==
  \E p \in Procs :
    /\ pc[p] = "settled" /\ ~EnvSet /\ ~HasSandboxProfile /\ ctx.agentDir = Undefined
    /\ result[p].error = "NoProfileFound"

\* C6, second case reached: MissingCredential on a store that holds only
\* another provider's record
C6_MissingCredentialReached ==
  \E p \in Procs :
    /\ pc[p] = "settled" /\ ~EnvSet /\ StoreLacksRecord /\ disk.profiles # NoProfiles
    /\ result[p].error = "MissingCredential"

\* the operations of the interactive login flow
InteractiveOps == {"prompt", "openUrl", "listen", "exchangeCode"}

\* C7: no tool invocation performs an operation of the interactive login
\* flow; the only request it makes to /oauth/token is a refresh_token grant;
\* and an invocation whose getToken found no usable credential ends in an
\* error without any API request.
C7_NoInteractiveOAuth ==
  \A p \in Procs :
    /\ \A i \in DOMAIN trace[p] :
         /\ trace[p][i].op \notin InteractiveOps
         /\ trace[p][i].op = "oauthToken" => trace[p][i].kind = "refresh_token"
    /\ (pc[p] = "settled" /\ token[p] = Undefined) =>
         result[p].state = "thrown" /\ Count(p, "fetch") = 0

\* C7 witness: the refresh grant was rejected and the invocation ended in
\* TokenRefreshFailed
C7_Witness ==
  \E p \in Procs :
    /\ pc[p] = "settled" /\ result[p].error = "TokenRefreshFailed"
    /\ Count(p, "oauthToken") = 1 /\ Len(trace[p]) = 2

\* C8: in the two delete tools a 404 answer, on whichever attempt, ends the
\* invocation at once with ok: true and already_gone: true: no sleep and no
\* request follow it and nothing is thrown.
C8_Delete404IsSuccess ==
  \A p \in Procs :
    call[p].tool \in DeleteTools =>
      \A i \in Ops(p, "fetch") :
        trace[p][i].status = 404 =>
          /\ i = Len(trace[p])
          /\ pc[p] = "settled" /\ result[p].state = "returned"
          /\ result[p].ok /\ result[p].already_gone

\* C8 witness: a second invocation deletes an id whose deletion an earlier
\* invocation reported ok; the server answers 404 and the tool reports ok again
C8_Witness ==
  \E p \in Procs :
    /\ pc[p] = "settled" /\ call[p].tool = "sandbox_destroy_session"
    /\ invocations = 2 /\ Resource(call[p]) \in acked
    /\ trace[p][Len(trace[p])].status = 404
    /\ result[p].ok /\ result[p].already_gone

\* C8, on a later attempt: a 404 on the third attempt, after two retries
C8_LateReached ==
  \E p \in Procs :
    /\ pc[p] = "settled" /\ call[p].tool = "sandbox_delete_file"
    /\ Count(p, "fetch") = 3 /\ trace[p][Len(trace[p])].status = 404
    /\ result[p].already_gone

\* a status the retry policy is meant to retry: 429, 5xx, or none at all
RetryableStatus(st) == st = 429 \/ (st >= 500 /\ st <= 599) \/ st = 0

\* the statuses of the answers to the requests of p, in order
RECURSIVE FetchStatuses(_)
FetchStatuses(t) ==
  IF t = <<>> THEN <<>>
  ELSE IF Head(t).op = "fetch" THEN <<Head(t).status>> \o FetchStatuses(Tail(t))
  ELSE FetchStatuses(Tail(t))

\* C9: one invocation of a delete tool sends at most 3 requests; when every
\* answer is a retryable failure it sends exactly 3 and throws the error of
\* the last attempt; on the answers 500, 500, 2xx it returns ok.
C9_RetryBound ==
  \A p \in Procs :
    call[p].tool \in DeleteTools =>
      LET sts == FetchStatuses(trace[p]) IN
      /\ Len(sts) <= 3
      /\ (pc[p] = "settled" /\ sts # <<>> /\ \A i \in DOMAIN sts : RetryableStatus(sts[i])) =>
           /\ Len(sts) = 3
           /\ result[p].state = "thrown"
           /\ result[p].message = lastError[p]
      /\ (pc[p] = "settled" /\ Len(sts) = 3 /\ sts[1] = 500 /\ sts[2] = 500
          /\ sts[3] >= 200 /\ sts[3] <= 299) =>
           result[p].state = "returned" /\ result[p].ok

\* C9, the part that holds: never more than 3 requests, never more than 2 sleeps
C9_AtMostThree ==
  \A p \in Procs : Count(p, "fetch") <= 3 /\ Count(p, "sleep") <= 2

\* C10: in the two delete tools an answer with a 4xx status other than 404
\* and 429 makes the invocation throw that error at once: the request is the
\* last thing the invocation did.
C10_ClientErrorFailsFast ==
  \A p \in Procs :
    call[p].tool \in DeleteTools =>
      \A i \in Ops(p, "fetch") :
        (trace[p][i].status >= 400 /\ trace[p][i].status <= 499
         /\ trace[p][i].status \notin {404, 429}) =>
          /\ i = Len(trace[p])
          /\ pc[p] = "settled" /\ result[p].state = "thrown"
          /\ result[p].error = "ApiRequestFailed"

\* ------------------------------------------------------------------ C12
\* part occurs in msg as a run of consecutive elements
Embeds(msg, part) ==
  \E i \in 1..(Len(msg) + 1) :
    i + Len(part) - 1 <= Len(msg) /\ SubSeq(msg, i, i + Len(part) - 1) = part

\* the invocation has ended on the answer held in response[p]
EndedOn2xx(p) ==
  pc[p] = "settled" /\ response[p].kind = "http"
  /\ response[p].status >= 200 /\ response[p].status <= 299

\* C12: a 2xx answer is classified as follows: status 204 gives an empty
\* object whatever the content-type; otherwise a JSON content-type gives the
\* parsed body, an empty body giving an empty object and no parse error;
\* any other content-type gives the raw text.
C12_Classify2xx ==
  \A p \in Procs :
    EndedOn2xx(p) =>
      LET res == response[p] IN
      IF res.status = 204
        THEN result[p].state = "returned" /\ result[p].data = EmptyObj
      ELSE IF res.ctype \in {"application/json", "application/json; charset=utf-8"}
        THEN /\ res.text = <<>> => result[p].state = "returned" /\ result[p].data = EmptyObj
             /\ res.text = <<"{", "return_code:", "0", "}">> =>
                  /\ result[p].state = "returned"
                  /\ result[p].data.type = "object"
                  /\ DOMAIN result[p].data.fields = {"return_code"}
                  /\ result[p].data.fields["return_code"] = <<"0">>
             /\ res.text = <<"{", "status:destroyed", "}">> =>
                  /\ result[p].state = "returned"
                  /\ result[p].data.type = "object"
                  /\ DOMAIN result[p].data.fields = {"status"}
                  /\ result[p].data.fields["status"] = <<"destroyed">>
      ELSE /\ result[p].state = "returned"
           /\ result[p].data.type = "text"
           /\ result[p].data.text = res.text

\* C12 witness: a 204 declared as text/plain gave an empty object
C12_Witness ==
  \E p \in Procs :
    /\ EndedOn2xx(p) /\ response[p].status = 204 /\ response[p].ctype = "text/plain"
    /\ result[p].state = "returned" /\ result[p].data = EmptyObj

\* a 200 with a JSON content-type and no body gave an empty object
C12_EmptyBodyReached ==
  \E p \in Procs :
    /\ EndedOn2xx(p) /\ response[p].status = 200 /\ response[p].text = <<>>
    /\ response[p].ctype = "application/json"
    /\ result[p].state = "returned" /\ result[p].data = EmptyObj

\* ------------------------------------------------------------------ C13
\* the invocation's latest fetch was answered with a non-2xx status
AnsweredNon2xx(p) ==
  response[p].kind = "http" /\ ~(response[p].status >= 200 /\ response[p].status <= 299)

MethodOf(tool) ==
  IF tool \in {"sandbox_destroy_session", "sandbox_delete_file"} THEN "DELETE"
  ELSE IF tool \in {"sandbox_execute", "sandbox_create_session", "sandbox_inject_files"}
    THEN "POST"
  ELSE "GET"

\* the Error apiRequest threw: the retry loop keeps it in lastError, the
\* other tools let it through as the invocation's error
ApiRequestError(p) ==
  IF call[p].tool \in {"sandbox_destroy_session", "sandbox_delete_file"}
    THEN lastError[p] ELSE result[p].message

RetryWrapped == {"sandbox_destroy_session", "sandbox_delete_file"}

\* C14: an invocation of a tool without the retry loop sends at most one
\* API request and never sleeps; a non-2xx answer (404, 429 and 5xx
\* included) or a transport failure ends it at once with that error, and it
\* never reports already_gone.
C14_NoRetryElsewhere ==
  \A p \in Procs :
    (call[p].tool # "" /\ call[p].tool \notin RetryWrapped) =>
      /\ Count(p, "fetch") <= 1
      /\ Count(p, "sleep") = 0
      /\ ~result[p].already_gone
      /\ (AnsweredNon2xx(p) \/ response[p].kind = "network") =>
           /\ pc[p] = "settled" /\ result[p].state = "thrown"
           /\ result[p].error = (IF response[p].kind = "network" THEN "NetworkError"
                                  ELSE "ApiRequestFailed")

\* C14 witness: sandbox_inject_files answered 404 failed after one request
C14_Witness ==
  \E p \in Procs :
    /\ call[p].tool = "sandbox_inject_files" /\ response[p].status = 404
    /\ pc[p] = "settled" /\ result[p].state = "thrown" /\ Count(p, "fetch") = 1

\* an upload answered 500 failed after one request
C14_Upload500Reached ==
  \E p \in Procs :
    /\ call[p].tool = "sandbox_upload_file" /\ response[p].status = 500
    /\ pc[p] = "settled" /\ result[p].state = "thrown" /\ Count(p, "fetch") = 1

\* ------------------------------------------------------------------ C18
\* base64 of RFC 4648: groups of four characters of the alphabet, the last
\* group ending in at most two "="
Base64Alphabet == {"A", "C", "E", "w", "+", "/", "0", "1", "2", "3", "4", "5", "6", "7", "8", "9"}

ValidBase64(s) ==
  /\ Len(s) % 4 = 0
  /\ \A i \in DOMAIN s :
       \/ s[i] \in Base64Alphabet
       \/ s[i] = "=" /\ i >= Len(s) - 1 /\ \A j \in i..Len(s) : s[j] = "="

\* the upload invocation of p has got past getToken and has ended
UploadEnded(p) ==
  call[p].tool = "sandbox_upload_file" /\ pc[p] = "settled" /\ token[p] # Undefined

\* C18: an upload whose file_data is not valid base64 fails with the
\* 'Invalid base64 encoding' error and sends no request; file_data that
\* passes is forwarded in exactly one POST.
C18_InvalidBase64Rejected ==
  \A p \in Procs :
    UploadEnded(p) =>
      IF ~ValidBase64(call[p].file_data)
        THEN /\ result[p].state = "thrown" /\ result[p].error = "InvalidEncoding"
             /\ Count(p, "fetch") = 0
      ELSE /\ Count(p, "fetch") = 1
           /\ \A i \in Ops(p, "fetch") : trace[p][i].kind = "POST"

\* C18, the part that holds: file_data with a character outside the
\* alphabet, or with three "=", is refused before any request
C18_BadCharactersRejected ==
  \A p \in Procs :
    (UploadEnded(p) /\ call[p].file_data \in {<<"!", "!", "!">>, <<"A", "=", "=", "=">>}) =>
      /\ result[p].state = "thrown" /\ result[p].error = "InvalidEncoding"
      /\ Count(p, "fetch") = 0

\* ------------------------------------------------------------------ C19
\* the sleeps of p, in order
RECURSIVE SleepLengths(_)
SleepLengths(t) ==
  IF t = <<>> THEN <<>>
  ELSE IF Head(t).op = "sleep" THEN <<Head(t).ms>> \o SleepLengths(Tail(t))
  ELSE SleepLengths(Tail(t))

RECURSIVE Sum(_)
Sum(q) == IF q = <<>> THEN 0 ELSE Head(q) + Sum(Tail(q))

\* the number of requests among the first i events of p
AttemptAt(p, i) == Cardinality({j \in Ops(p, "fetch") : j <= i})

\* C19: in the delete tools, a retryable failure (429, 5xx, no answer) on
\* attempt k = 1, 2 is followed by a sleep of 500 * 2^(k-1) ms; nothing else
\* is followed by a sleep (not the third attempt, not a 404, not another
\* 4xx); the sleeps of one invocation add up to at most 1500 ms.
C19_BackoffSchedule ==
  \A p \in Procs :
    call[p].tool \in {"sandbox_destroy_session", "sandbox_delete_file"} =>
      /\ \A i \in Ops(p, "fetch") :
           LET k == AttemptAt(p, i)
               st == trace[p][i].status
               slept == i < Len(trace[p]) /\ trace[p][i + 1].op = "sleep" IN
           /\ (k <= 2 /\ (st = 429 \/ st >= 500 \/ st = 0)) =>
                slept /\ trace[p][i + 1].ms = 500 * (2 ^ (k - 1))
           /\ (k = 3 \/ (st >= 400 /\ st <= 499 /\ st # 429)) => ~slept
      /\ Sum(SleepLengths(trace[p])) <= 1500

\* C19, the part that holds: the sleeps are 500 ms then 1000 ms, each right
\* after a request, none after the third request
C19_SleepLengths ==
  \A p \in Procs :
    /\ SleepLengths(trace[p]) \in {<<>>, <<500>>, <<500, 1000>>}
    /\ \A i \in Ops(p, "sleep") :
         i > 1 /\ trace[p][i - 1].op = "fetch" /\ AttemptAt(p, i) <= 2

\* ------------------------------------------------------------------ C20
\* the fields of a record that a refresh leaves alone
KeptFields == {"type", "provider", "key", "email"}

\* C20: a refresh changes, in the store getToken read, exactly the access,
\* refresh and expires fields of the matched record, to the values the
\* token endpoint returned (its refresh token, not the one sent); the store
\* written is that store, so every other field and every other profile is
\* written back as read, and no write removes a profile.
C20_Step ==
  /\ DOMAIN disk.profiles \subseteq DOMAIN disk'.profiles
  /\ \A p \in Procs :
       LET id == FindProfileId(ctx.config) IN
       /\ (pc[p] = "readFile" /\ pc'[p] = "refresh") => mem'[p] = disk.profiles
       /\ (pc[p] = "refresh" /\ pc'[p] = "writeFile") =>
            LET r == seen'[p].refreshed IN
            /\ DOMAIN mem'[p] = DOMAIN mem[p]
            /\ \A o \in DOMAIN mem[p] \ {id} : mem'[p][o] = mem[p][o]
            /\ \A f \in KeptFields : mem'[p][id][f] = mem[p][id][f]
            /\ r.accessToken = NewAccess(issued') /\ r.expiresAt = now + ExpiresIn * 1000
            /\ r.refreshToken \in {NewRefresh(issued'), mem[p][id].refresh}
            /\ mem'[p][id].access = r.accessToken
            /\ mem'[p][id].refresh = r.refreshToken
            /\ mem'[p][id].expires = r.expiresAt
       /\ (pc[p] = "writeFile" /\ pc'[p] = "request") =>
            disk'.state = "ok" /\ disk'.profiles = mem[p]

C20_RefreshFrame == [][C20_Step]_vars

\* C20 witness: the store on disk holds the rotated refresh token and the
\* new access token, the permanent-key field and the other profile as before
C20_Witness ==
  \E p \in Procs :
    /\ pc[p] = "request" /\ Count(p, "writeFile") = 1
    /\ seen[p].cred.refresh = OldRefresh
    /\ disk.profiles[ProfileId].refresh = NewRefresh(1)
    /\ disk.profiles[ProfileId].refresh # OldRefresh
    /\ disk.profiles[ProfileId].access = NewAccess(1)
    /\ disk.profiles[ProfileId].key = seen[p].cred.key
    /\ disk.profiles[OtherProfileId] = OtherCred

\* ------------------------------------------------------------------ C11
\* positions of the login's trace that hold an operation of kind op
LOps(op) == {i \in DOMAIN ltrace : ltrace[i].op = op}

\* the state parameter carried by a received callback or a pasted text:
\* Undefined when it carries none
CarriedState(ev) ==
  IF ev.op = "callback" THEN SearchParam(ev.data, "state=")
  ELSE IF ev.op = "input" /\ IsUrl(Trim(ev.data)) THEN SearchParam(Trim(ev.data), "state=")
  ELSE Undefined

\* positions where a state other than the generated one was received
ForeignStateAt ==
  {i \in LOps("callback") \cup LOps("input") :
     CarriedState(ltrace[i]) # Undefined /\ CarriedState(ltrace[i]) # LocalState}

\* C11: in remote mode, in local mode and in the fallback alike, once a
\* callback or a pasted input has carried a state that differs from the
\* generated one, the flow has failed with the state-mismatch error and no
\* token exchange request has been sent.
C11_StateMismatchFails ==
  ForeignStateAt # {} =>
    /\ lpc = "failed" /\ outcome.error = "OAuthStateMismatch"
    /\ LOps("exchange") = {}

\* C11, the part that holds: a pasted URL that has a code and a non-empty
\* state other than the generated one ends the flow in the mismatch error,
\* with no exchange after it
C11_PastedMismatchFails ==
  \A i \in LOps("input") :
    LET text == Trim(ltrace[i].data) IN
    (IsUrl(text) /\ Truthy(SearchParam(text, "code=")) /\ Truthy(SearchParam(text, "state="))
     /\ SearchParam(text, "state=") # LocalState) =>
      /\ lpc = "failed" /\ outcome.error = "OAuthStateMismatch"
      /\ \A j \in LOps("exchange") : j < i

\* ------------------------------------------------------------------ C15
\* the listener did not start: listen threw, or the server emitted 'error'
ListenerFailed ==
  \E i \in LOps("listen") :
    i < Len(ltrace) /\ ltrace[i + 1].op \in {"uncaught", "prompt"}

\* C15: in local mode, once the callback listener has failed to start, the
\* flow has prompted exactly once and goes on through the state check and
\* the code exchange; the failure of the listener does not end the flow.
C15_ListenerFailureFallsBack ==
  (~isRemote /\ ListenerFailed) =>
    /\ Cardinality(LOps("prompt")) = 1
    /\ lpc \in {"prompt", "exchange", "createKey", "done", "failed"}
    /\ lpc = "failed" => outcome.error \in {"OAuthStateMismatch", "TokenExchangeFailed",
                                             "NetworkError"}

\* C15, the part that holds: after a fallback prompt the pasted input goes
\* through the state check and at most one exchange, as in remote mode
C15_FallbackPath ==
  \A i \in LOps("prompt") :
    ltrace[i].kind = "fallback" =>
      /\ Cardinality(LOps("prompt")) = 1
      /\ Cardinality({j \in LOps("exchange") : j > i}) <= 1
      /\ \A j \in LOps("exchange") : j > i => ~StateMismatch(parseCallbackInput(ltrace[j - 1].data))

\* ------------------------------------------------------------------ C16
\* C16: with isRemote the flow never opens the browser and never starts the
\* listener; it prompts once, and the only exchange it sends carries the
\* code obtained from the pasted input (the trimmed text, or the code
\* parameter of a pasted URL).
C16_RemoteNeverOpens ==
  isRemote =>
    /\ \A i \in DOMAIN ltrace : ltrace[i].op \notin {"openUrl", "listen", "callback", "close"}
    /\ Cardinality(LOps("prompt")) <= 1
    /\ lpc \in {"prompt", "exchange", "createKey", "done", "failed"} =>
         Cardinality(LOps("prompt")) = 1
    /\ Cardinality(LOps("exchange")) <= 1
    /\ lpc \in {"exchange", "createKey", "done"} => Cardinality(LOps("exchange")) = 1
    /\ \A j \in LOps("exchange") :
         /\ j > 1 /\ ltrace[j - 1].op = "input"
         /\ ltrace[j].kind = "authorization_code"
         /\ ltrace[j].data \in {Trim(ltrace[j - 1].data),
                                 SearchParam(Trim(ltrace[j - 1].data), "code=")}

\* C16 witness: a remote login completed from a pasted, padded bare code
C16_Witness ==
  /\ isRemote /\ lpc = "done" /\ outcome.state = "returned"
  /\ \E j \in LOps("exchange") :
       ltrace[j - 1].data = <<" ", "code-1", " ">> /\ ltrace[j].data = <<"code-1">>
  /\ LOps("openUrl") = {} /\ LOps("listen") = {}

\* ------------------------------------------------------------------ C17
\* the key stored for the existing agentsandbox profile, when auth.run can
\* look it up
StoredKey ==
  LET id == FindProfileId(ctx.config) IN
  IF Truthy(id) /\ Truthy(LoginAgentDir(dirEnv)) /\ disk.state = "ok"
     /\ id \in DOMAIN disk.profiles
    THEN disk.profiles[id].key ELSE Undefined

\* C17: the credential of a completed login carries the api key of the
\* token exchange when there is one, otherwise the key stored for the
\* existing profile; a failed lookup of the stored key never fails the login.
C17_KeyPreserved ==
  /\ lpc = "done" =>
       /\ outcome.credential.access = flow.result.accessToken
       /\ outcome.credential.refresh = flow.result.refreshToken
       /\ IF Truthy(flow.result.apiKey) THEN outcome.credential.key = flow.result.apiKey
          ELSE Truthy(StoredKey) => outcome.credential.key = StoredKey
  /\ lpc = "failed" =>
       outcome.error \in {"OAuthStateMismatch", "TokenExchangeFailed", "NetworkError"}

\* C17, the part that holds: the same whenever the exchange's api_key is
\* null or a non-empty key
C17_KeyPreservedUnlessEmpty ==
  /\ (lpc = "done" /\ flow.result.apiKey # <<>>) =>
       /\ outcome.credential.access = flow.result.accessToken
       /\ outcome.credential.refresh = flow.result.refreshToken
       /\ IF Truthy(flow.result.apiKey) THEN outcome.credential.key = flow.result.apiKey
          ELSE Truthy(StoredKey) => outcome.credential.key = StoredKey
  /\ lpc = "failed" =>
       outcome.error \in {"OAuthStateMismatch", "TokenExchangeFailed", "NetworkError"}

\* a login found the store unreadable and still completed with the new tokens
C17_LookupFailureReached ==
  /\ lpc = "done" /\ disk.state = "corrupt" /\ LOps("readFile") # {}
  /\ outcome.credential.access = LoginAccess

\* ------------------------------------------------------------------ C21
\* getToken of p has got a grant from the token endpoint
Refreshed(p) == seen[p].refreshed # NoRefreshed

\* C21: when getToken refreshes, the write of the whole store is complete
\* before the new access token is returned and before any API request
\* carries it; when the write fails the invocation fails and sends no API
\* request.
C21_PersistBeforeUse ==
  \A p \in Procs :
    Refreshed(p) =>
      /\ token[p] # Undefined =>
           /\ token[p] = seen[p].refreshed.accessToken
           /\ Count(p, "writeFile") = 1
      /\ \A i \in Ops(p, "fetch") :
           /\ trace[p][i].token = seen[p].refreshed.accessToken
           /\ \E w \in Ops(p, "writeFile") : w < i
      /\ Count(p, "writeFile") = 0 =>
           /\ pc[p] \in {"writeFile", "settled"}
           /\ token[p] = Undefined /\ Count(p, "fetch") = 0
           /\ pc[p] = "settled" =>
                result[p].state = "thrown" /\ result[p].error = "StoreWriteFailed"

\* C21 witness: the grant arrived, the write failed, the invocation ended
\* in that error without a request
C21_Witness ==
  \E p \in Procs :
    /\ Refreshed(p) /\ pc[p] = "settled" /\ result[p].error = "StoreWriteFailed"
    /\ Count(p, "fetch") = 0 /\ Count(p, "oauthToken") = 1

\* the write succeeded and the request carried the new token
C21_WrittenThenUsedReached ==
  \E p \in Procs :
    /\ Refreshed(p) /\ Count(p, "writeFile") = 1 /\ Count(p, "fetch") = 1
    /\ \A i \in Ops(p, "fetch") : trace[p][i].token = NewAccess(1)

\* ------------------------------------------------------------------ C26
\* the retry loop of p acted on an answer of the server
DeleteAnswered(p) ==
  call[p].tool \in {"sandbox_destroy_session", "sandbox_delete_file"}
  /\ response[p].kind = "http"

\* C26: in the delete tools, already_gone is returned only when the latest
\* answer had status 404, a sleep follows only a 429 or 5xx answer (or a
\* 2xx whose body did not parse), and an answer 4xx other than 404 and 429
\* is thrown, whatever the id and the response body contain.
C26_StatusFidelity ==
  \A p \in Procs :
    DeleteAnswered(p) =>
      LET st == response[p].status IN
      /\ result[p].already_gone => st = 404
      /\ st = 404 => pc[p] = "settled" /\ result[p].already_gone
      /\ pc[p] = "sleep" => (st = 429 \/ st >= 500 \/ (st >= 200 /\ st <= 299))
      /\ (st = 429 \/ st >= 500) =>
           \/ pc[p] = "sleep"
           \/ pc[p] = "settled" /\ result[p].state = "thrown" /\ Count(p, "fetch") = 3
      /\ (st >= 400 /\ st <= 499 /\ st \notin {404, 429}) =>
           pc[p] = "settled" /\ result[p].state = "thrown"

\* C26, the part that holds: an answer that really is a 404 is always
\* reported as already gone
C26_Real404IsGone ==
  \A p \in Procs :
    (DeleteAnswered(p) /\ response[p].status = 404) =>
      pc[p] = "settled" /\ result[p].already_gone

\* ------------------------------------------------------------------ C27
\* the refresh request of p failed: it was sent, no grant came back, and
\* the invocation is over
RefreshFailed(p) ==
  pc[p] = "settled" /\ Count(p, "oauthToken") = 1 /\ ~Refreshed(p)

\* what every failed refresh leaves behind: no write, the store and its
\* refresh token as read, one refresh request, no API request
RefreshFailureFrame(p) ==
  /\ result[p].state = "thrown"
  /\ Count(p, "writeFile") = 0
  /\ disk.state = "ok" /\ disk.profiles = mem[p]
  /\ disk.profiles[FindProfileId(ctx.config)].refresh = seen[p].cred.refresh
  /\ Count(p, "oauthToken") = 1
  /\ Count(p, "fetch") = 0

\* C27 as stated: a refresh that fails, by a non-2xx answer or a transport
\* error, ends the invocation in TokenRefreshFailed carrying the status and
\* the response body; the store is not written, the stored refresh token is
\* kept, the refresh is not retried and no API request is sent.
C27_RefreshFailureAsStated ==
  \A p \in Procs :
    RefreshFailed(p) =>
      /\ result[p].error = "TokenRefreshFailed"
      /\ Embeds(result[p].message, <<"(", "4", "0", "0", ")">>)
      /\ Embeds(result[p].message, <<"invalid_grant">>)
      /\ RefreshFailureFrame(p)

\* C27 amended: on a non-2xx answer the error is TokenRefreshFailed with
\* the status and the body; on a transport error it is the error of fetch,
\* which has neither; in both cases the store is not written, the stored
\* refresh token is kept, the refresh is not retried and no API request is
\* sent.
C27_RefreshFailure ==
  \A p \in Procs :
    RefreshFailed(p) =>
      /\ \/ /\ result[p].error = "TokenRefreshFailed"
            /\ Embeds(result[p].message, <<"Token refresh failed ">>)
            /\ Embeds(result[p].message, <<"(", "4", "0", "0", ")">>)
            /\ Embeds(result[p].message, <<"invalid_grant">>)
         \/ /\ result[p].error = "NetworkError"
            /\ result[p].message = <<"fetch failed">>
      /\ RefreshFailureFrame(p)

\* C27 witness: the token endpoint answered 400 invalid_grant
C27_Witness ==
  \E p \in Procs :
    /\ RefreshFailed(p) /\ result[p].error = "TokenRefreshFailed"
    /\ disk.profiles[FindProfileId(ctx.config)].refresh = OldRefresh

\* the refresh request got no answer
C27_TransportErrorReached ==
  \E p \in Procs : RefreshFailed(p) /\ result[p].error = "NetworkError"

\* ------------------------------------------------------------------ C28
\* the operations by which getToken resolves the token
ResolutionOps == {"readFile", "oauthToken", "writeFile"}

\* C28: an invocation resolves its token once, before its first API
\* request: at most one read of the store, one refresh and one write, none
\* of them after a request; every request of the invocation, retries
\* included, carries that one token; a 401 answer is followed by no new
\* resolution and no refresh.
C28_OneResolution ==
  \A p \in Procs :
    /\ Count(p, "readFile") <= 1 /\ Count(p, "oauthToken") <= 1 /\ Count(p, "writeFile") <= 1
    /\ \A i \in DOMAIN trace[p], j \in Ops(p, "fetch") :
         trace[p][i].op \in ResolutionOps => i < j
    /\ \A j \in Ops(p, "fetch") : trace[p][j].token = token[p] /\ token[p] # Undefined
    /\ \A j \in Ops(p, "fetch") :
         trace[p][j].status = 401 =>
           \A i \in DOMAIN trace[p] : i > j => trace[p][i].op \notin ResolutionOps

\* C28 witness: three attempts of a delete carried the one refreshed token
C28_Witness ==
  \E p \in Procs :
    /\ Count(p, "fetch") = 3 /\ Count(p, "oauthToken") = 1 /\ Count(p, "readFile") = 1
    /\ \A j \in Ops(p, "fetch") : trace[p][j].token = NewAccess(1)

\* a 401 ended a delete after one request
C28_UnauthorizedReached ==
  \E p \in Procs :
    /\ call[p].tool = "sandbox_delete_file" /\ Count(p, "fetch") = 1
    /\ response[p].status = 401 /\ pc[p] = "settled" /\ result[p].state = "thrown"


\* ------------------------------------------------------------------ C24
\* runOAuthFlow has returned or thrown
FlowEnded == lpc \in {"createKey", "done", "failed"}

C24_CodeServedReached ==
  /\ lpc = "done"
  /\ \E i \in LOps("callback") : Truthy(SearchParam(ltrace[i].data, "code="))

\* ------------------------------------------------------------------ C25
\* the code carried by a received callback or a pasted text: the code
\* parameter of a URL, the trimmed text of anything else, Undefined for a URL
\* without a code
CarriedCode(ev) ==
  IF ev.op = "callback" THEN SearchParam(ev.data, "code=")
  ELSE IF IsUrl(Trim(ev.data)) THEN SearchParam(Trim(ev.data), "code=")
  ELSE Trim(ev.data)

\* positions where a code came without any state
CodeWithoutStateAt ==
  {i \in LOps("callback") \cup LOps("input") :
     Truthy(CarriedCode(ltrace[i])) /\ CarriedState(ltrace[i]) = Undefined}

\* C25: a callback or a pasted input that carries a code and no state is not
\* held against the generated state: the next request of the flow is the
\* token exchange with that code and the verifier of this invocation, it is
\* the only exchange of the flow, and the flow does not fail with the
\* state-mismatch error.
C25_AbsentStateTolerated ==
  \A i \in CodeWithoutStateAt :
    LET j == IF ltrace[i].op = "callback" THEN i + 2 ELSE i + 1 IN
    /\ j <= Len(ltrace)
    /\ ltrace[j] = LEv("exchange", "authorization_code", CarriedCode(ltrace[i]), Verifier)
    /\ LOps("exchange") = {j}
    /\ ~(lpc = "failed" /\ outcome.error = "OAuthStateMismatch")

\* a callback with a code and no state was exchanged and the login returned
C25_Witness ==
  /\ lpc = "done"
  /\ \E i \in CodeWithoutStateAt : ltrace[i].op = "callback"

\* a pasted redirect URL with a code and no state was exchanged
C25_PastedUrlReached ==
  /\ lpc = "done"
  /\ \E i \in CodeWithoutStateAt : ltrace[i].op = "input" /\ IsUrl(Trim(ltrace[i].data))

\* ------------------------------------------------------------------ C29
\* C29: when the pasted input is a URL, the code of the exchange that follows
\* is the URL's code parameter, never the URL itself, and a state that the
\* URL carries is held against the generated one (another state ends the
\* flow in the mismatch error, with no exchange); only an input that is not
\* a URL is sent, trimmed, as the code.
C29_CallbackInputParsing ==
  \A i \in LOps("input") :
    LET text == Trim(ltrace[i].data)
        after == {j \in LOps("exchange") : j > i} IN
    IF IsUrl(text)
      THEN /\ \A j \in after : /\ ltrace[j].data = SearchParam(text, "code=")
                               /\ ltrace[j].data # text
           /\ (SearchParam(text, "state=") # Undefined
               /\ SearchParam(text, "state=") # LocalState) =>
                 /\ after = {}
                 /\ lpc = "failed" /\ outcome.error = "OAuthStateMismatch"
    ELSE /\ after # {}
         /\ \A j \in after : ltrace[j].data = text

\* C29, the part that holds: a pasted URL that has a code gets that code
\* exchanged, or no exchange at all; an input that is not a URL is sent trimmed
C29_UrlWithCodeParsed ==
  \A i \in LOps("input") :
    LET text == Trim(ltrace[i].data)
        after == {j \in LOps("exchange") : j > i} IN
    IF IsUrl(text)
      THEN Truthy(SearchParam(text, "code=")) =>
             \A j \in after : ltrace[j].data = SearchParam(text, "code=")
    ELSE after # {} /\ \A j \in after : ltrace[j].data = text

\* ------------------------------------------------------------------ C30
\* in local mode the listener received a code with the generated state or
\* with no state
LocalCodeAccepted ==
  /\ ~isRemote
  /\ \E i \in LOps("callback") :
       /\ Truthy(CarriedCode(ltrace[i]))
       /\ CarriedState(ltrace[i]) \in {Undefined, LocalState}

\* C30: in local mode, once the callback has delivered a code with a matching
\* or absent state, exactly one exchange request is sent and the prompt of
\* the fallback is never shown; when the token endpoint rejects the exchange
\* with a non-2xx status, runOAuthFlow fails with the token-exchange error
\* whose message embeds the status and the body.
C30_ExchangeFailureLocal ==
  LocalCodeAccepted =>
    /\ LOps("prompt") = {}
    /\ Cardinality(LOps("exchange")) = 1
    /\ lpc \in {"exchange", "createKey", "done", "failed"}
    /\ (lpc = "failed" /\ outcome.error # "NetworkError") =>
         /\ outcome.error = "TokenExchangeFailed"
         /\ Embeds(outcome.message, <<"(">> \o StatusText(400) \o <<")">>)
         /\ Embeds(outcome.message, <<"invalid_code">>)

\* the exchange of a code from the callback was rejected
C30_Witness ==
  /\ LocalCodeAccepted
  /\ lpc = "failed" /\ outcome.error = "TokenExchangeFailed"

\* the rejected exchange followed a callback without a state
C30_AbsentStateReached ==
  /\ lpc = "failed" /\ outcome.error = "TokenExchangeFailed"
  /\ ~isRemote
  /\ \E i \in CodeWithoutStateAt : ltrace[i].op = "callback"


\* ------------------------------------------------------------------ C22
\* the step in which p's fs.writeFile completes
Wrote(p) == pc[p] = "writeFile" /\ pc'[p] = "request"

\* every request of p, and the token it holds, is of p's own refresh
UsesOwnRefresh(p) ==
  /\ token[p] # Undefined => token[p] = seen[p].refreshed.accessToken
  /\ \A i \in Ops(p, "fetch") : trace[p][i].token = seen[p].refreshed.accessToken

\* C22: two invocations that run concurrently on the same expired credential
\* may both refresh; each one that refreshed sends its API request with the
\* access token of its own refresh; the store changes only when a write
\* completes and then holds the whole store of the invocation that wrote, so
\* that it finally holds the one of the last writer.
C22_ConcurrentRefresh ==
  /\ [](\A p \in Procs : Refreshed(p) => UsesOwnRefresh(p))
  /\ [][\A p \in Procs : Wrote(p) => disk' = [state |-> "ok", profiles |-> mem[p]]]_vars
  /\ [][disk' # disk => \E p \in Procs : Wrote(p)]_vars

\* both invocations refreshed and wrote, each sent its request with its own
\* token, and the store is the one of t2, which wrote last
C22_Witness ==
  /\ \A p \in Procs : /\ Refreshed(p) /\ Count(p, "writeFile") = 1
                      /\ pc[p] = "settled" /\ result[p].state = "returned"
  /\ token["t1"] # token["t2"]
  /\ disk.profiles = mem["t2"] /\ disk.profiles # mem["t1"]

\* the two refreshes were in flight at the same time
C22_BothRefreshingReached == \A p \in Procs : pc[p] = "refresh"

\* ------------------------------------------------------------------ C23
\* no invocation is running
Quiescent == \A p \in Procs : pc[p] \in {"idle", "settled"}

\* C23: after any interleaving of concurrent invocations and of a login that
\* writes another profile, against a token endpoint that rotates refresh
\* tokens, the refresh token left in the store is the one the endpoint still
\* accepts, and the record of the other profile written meanwhile is still
\* in the store.
C23_RotationSafe ==
  Quiescent =>
    /\ disk.profiles[ProfileId].refresh = ValidRefresh
    /\ lpc = "stored" =>
         /\ outcome.profileId \in DOMAIN disk.profiles
         /\ disk.profiles[outcome.profileId] = outcome.credential

\* C23, the part that holds as long as every write of the store succeeds:
\* the refresh token left in the store is the one the endpoint accepts
C23_StoredRefreshValid ==
  Quiescent => disk.profiles[ProfileId].refresh = ValidRefresh

\* C23 under write failures: a grant whose write failed leaves the
\* invalidated refresh token in the store
C23_FailedWriteReached ==
  /\ Quiescent
  /\ \E p \in Procs : Refreshed(p) /\ result[p].error = "StoreWriteFailed"
  /\ disk.profiles[ProfileId].refresh = OldRefresh

====
